---- MODULE Spec2Model ----
(***************************************************************************)
(* A model of the GoTorrent peer-exchange engine.                          *)
(*                                                                         *)
(* The module holds three state machines over one set of variables:        *)
(*   SpecPicker  PiecePicker (client/piecePicker/piecePicker.cpp) driven   *)
(*               by concurrent callers through its mutex;                  *)
(*   SpecConn    PeerConnection, the transport (peer/peerConnection.cpp);  *)
(*   Spec        the peer protocol logic (peer/peer.cpp) of several peers  *)
(*               that share the client's bitfield.                         *)
(* Each specification leaves the variables of the other two untouched.     *)
(***************************************************************************)
EXTENDS Integers, Sequences, FiniteSets, TLC

(***************************************************************************)
(* Bounds of the model.                                                    *)
(***************************************************************************)
\* number of pieces of the torrent (numPiecesInTorrent_, numPieces_)
NumPieces == 2
\* availability counters are explored up to this value
MaxAvail == 1
\* BLOCK_SIZE, scaled down
BLOCK_SIZE == 2

\* std::numeric_limits<size_t>::max() stands above every counter.
SIZE_MAX == MaxAvail + 1

Pieces == 0 .. (NumPieces - 1)
\* std::nullopt of std::optional<size_t>
NoPiece == -1
\* the two caller threads of the picker
Threads == {"t1", "t2"}
NoThread == "none"

(***************************************************************************)
(* Bitfields: a sequence of bytes, piece i is bit 7 - (i % 8) of byte i/8. *)
(***************************************************************************)
\* 1 << k, for a bit position of a byte
Pow2(k) == <<1, 2, 4, 8, 16, 32, 64, 128>>[k + 1]

\* (byte & (1 << bitIndex)) != 0
TestBit(byte, bitIndex) == (byte \div Pow2(bitIndex)) % 2 = 1

\* byte | (1 << bitIndex)
OrBit(byte, bitIndex) == IF TestBit(byte, bitIndex) THEN byte ELSE byte + Pow2(bitIndex)

\* PiecePicker::hasPiece
hasPiece(bitfield, index) ==
  LET byteIndex == index \div 8
      bitIndex == 7 - (index % 8)
  IN  IF byteIndex >= Len(bitfield) THEN FALSE
      ELSE TestBit(bitfield[byteIndex + 1], bitIndex)

\* number of bytes of a bitfield of NumPieces bits: (numPieces + 7) / 8
BitfieldSize == (NumPieces + 7) \div 8

RECURSIVE makeBitfieldFrom(_, _)
makeBitfieldFrom(bf, indices) ==
  IF indices = {} THEN bf
  ELSE LET i == CHOOSE x \in indices : TRUE
       IN  makeBitfieldFrom(
             [bf EXCEPT ![(i \div 8) + 1] = OrBit(@, 7 - (i % 8))],
             indices \ {i})

\* the bitfield of BitfieldSize bytes with exactly the bits of `indices` set
makeBitfield(indices) == makeBitfieldFrom([b \in 1 .. BitfieldSize |-> 0], indices)

\* Well-formed bitfields of the torrent.
LocalBitfields == { makeBitfield(S) : S \in SUBSET Pieces }
\* What a remote peer may send: also an empty payload and one with every
\* bit set, the spare bits of the last byte included.
WireBitfields == LocalBitfields \cup { <<>>, [b \in 1 .. BitfieldSize |-> 255] }

(***************************************************************************)
(* State.                                                                  *)
(***************************************************************************)
VARIABLES
  \* --- PiecePicker ---
  pieceAvailability,   \* pieceAvailability_ : piece -> count
  inFlightPieces,      \* inFlightPieces_ : set of pieces
  mutex,               \* mutex_ : the thread inside a critical section
  pickLocal,           \* per thread: the locals of a running pickPiece call
  last,                \* the last completed picker call (history)
  outstanding,         \* piece -> picks returned and not yet released (history)
  \* --- PeerConnection ---
  conn,                \* the members of one PeerConnection, its pending
                       \* asynchronous operations and what it has delivered
  \* --- peer protocol logic ---
  peers,               \* per remote peer: the protocol state kept for it
  clientBitfield,      \* *myBitfield_ : the client's bitfield, shared by the peers
  crashed,             \* the process was aborted
  hist,                \* what was verified and kept, and counters (history)
  torrent,             \* pieceLength_ and totalLength_ of the torrent
  \* --- PieceRepository and DiskTorrentStorage ---
  repo,                \* myBitfield_ and the last call on the repository
  storage,             \* files_ and the bytes of the files on disk
  pool,                \* filePool_ and openFilesMap_ of the storage
  callers,             \* the repository under calls from several threads
  work,                \* per thread: a peer between getBitfield and onPiecePassed
  \* --- TorrentSession ---
  activePeers,         \* activePeers_ : the peers the session holds, in order
  \* --- TitForTatChoking ---
  choker,              \* the peers handed to rechoke: their rates and am_choking
  session,             \* TorrentSession: rarity map, assigned pieces, own bitfield
  upload               \* a peer's REQUESTs served: am_choking and the last answer

pickerVars == <<pieceAvailability, inFlightPieces, mutex, pickLocal, last, outstanding>>

peerVars == <<peers, clientBitfield, crashed, hist, torrent>>

repoVars == <<repo, storage, pool, callers, work>>

sessionVars == <<activePeers, choker, session, upload>>

vars == <<pieceAvailability, inFlightPieces, mutex, pickLocal, last, outstanding, conn,
          peers, clientBitfield, crashed, hist, torrent, repo, storage, pool, callers, work,
          activePeers,
          choker, session, upload>>

(***************************************************************************)
(* PiecePicker.                                                            *)
(***************************************************************************)
IdleLocal == [pc |-> "idle", peerBitfield |-> <<>>, myBitfield |-> <<>>,
              selected |-> NoPiece, inFlightAtCall |-> {}]

NoCall == [op |-> "none", bitfield |-> <<>>, myBitfield |-> <<>>, index |-> NoPiece,
           result |-> NoPiece, inFlightBefore |-> {},
           availBefore |-> [i \in Pieces |-> 0], pairedWith |-> "none"]

MutexAvailable_NoExclusion(m) == TRUE

\* std::lock_guard<std::mutex> lock(mutex_): entered only while no thread holds it
MutexAvailable(m) == m = NoThread

\* the loop of PiecePicker::processBitfield
processBitfieldAvail(avail, bitfield) ==
  [i \in Pieces |-> IF hasPiece(bitfield, i) THEN avail[i] + 1 ELSE avail[i]]

processPeerDisconnectAvail_AllPieces(avail, bitfield) ==
  [i \in Pieces |-> IF avail[i] > 0 THEN avail[i] - 1 ELSE avail[i]]

\* the loop of PiecePicker::processPeerDisconnect
processPeerDisconnectAvail(avail, bitfield) ==
  [i \in Pieces |-> IF hasPiece(bitfield, i) /\ avail[i] > 0
                    THEN avail[i] - 1 ELSE avail[i]]

\* PiecePicker::processHave
processHaveAvail(avail, index) ==
  IF index < NumPieces THEN [avail EXCEPT ![index] = @ + 1] ELSE avail

RECURSIVE pickScan(_, _, _, _, _, _, _)
\* the candidate loop of PiecePicker::pickPiece, from piece i on
pickScan(i, avail, inFlight, peerBitfield, myBitfield, minAvailability, candidates) ==
  IF i >= NumPieces THEN candidates
  ELSE IF hasPiece(myBitfield, i)
    THEN pickScan(i + 1, avail, inFlight, peerBitfield, myBitfield, minAvailability, candidates)
  ELSE IF i \in inFlight
    THEN pickScan(i + 1, avail, inFlight, peerBitfield, myBitfield, minAvailability, candidates)
  ELSE IF hasPiece(peerBitfield, i)
    THEN LET rarity == avail[i]
         IN  IF rarity < minAvailability
               THEN pickScan(i + 1, avail, inFlight, peerBitfield, myBitfield, rarity, <<i>>)
             ELSE IF rarity = minAvailability
               THEN pickScan(i + 1, avail, inFlight, peerBitfield, myBitfield,
                             minAvailability, Append(candidates, i))
             ELSE pickScan(i + 1, avail, inFlight, peerBitfield, myBitfield,
                           minAvailability, candidates)
  ELSE pickScan(i + 1, avail, inFlight, peerBitfield, myBitfield, minAvailability, candidates)

pickCandidates_IgnoreMine(avail, inFlight, peerBitfield, myBitfield) ==
  pickScan(0, avail, inFlight, peerBitfield, <<>>, SIZE_MAX, <<>>)

\* candidates after the loop of PiecePicker::pickPiece
pickCandidates(avail, inFlight, peerBitfield, myBitfield) ==
  pickScan(0, avail, inFlight, peerBitfield, myBitfield, SIZE_MAX, <<>>)

pickSelected_Last(candidates) ==
  IF candidates = <<>> THEN NoPiece ELSE candidates[Len(candidates)]

\* nullopt when there is no candidate, else candidates[0]
pickSelected(candidates) ==
  IF candidates = <<>> THEN NoPiece ELSE candidates[1]

Bump(count) == IF count < 2 THEN count + 1 ELSE 2

\* processBitfield(bitfield), whole under the mutex
ProcessBitfield(bitfield) ==
  /\ MutexAvailable(mutex)
  /\ \A i \in Pieces : hasPiece(bitfield, i) => pieceAvailability[i] < MaxAvail
  /\ pieceAvailability' = processBitfieldAvail(pieceAvailability, bitfield)
  /\ last' = [NoCall EXCEPT !.op = "processBitfield", !.bitfield = bitfield,
                            !.inFlightBefore = inFlightPieces,
                            !.availBefore = pieceAvailability]
  /\ UNCHANGED <<inFlightPieces, mutex, pickLocal, outstanding, conn, peerVars, repoVars, sessionVars>>

\* processPeerDisconnect(bitfield), whole under the mutex
ProcessPeerDisconnect(bitfield) ==
  /\ MutexAvailable(mutex)
  /\ pieceAvailability' = processPeerDisconnectAvail(pieceAvailability, bitfield)
  /\ last' = IF last.op = "processBitfield" /\ last.bitfield = bitfield
             THEN [last EXCEPT !.op = "processPeerDisconnect",
                               !.pairedWith = "processBitfield"]
             ELSE [NoCall EXCEPT !.op = "processPeerDisconnect", !.bitfield = bitfield,
                                 !.inFlightBefore = inFlightPieces,
                                 !.availBefore = pieceAvailability]
  /\ UNCHANGED <<inFlightPieces, mutex, pickLocal, outstanding, conn, peerVars, repoVars, sessionVars>>

\* processHave(index), whole under the mutex
ProcessHave(index) ==
  /\ MutexAvailable(mutex)
  /\ index \in Pieces => pieceAvailability[index] < MaxAvail
  /\ pieceAvailability' = processHaveAvail(pieceAvailability, index)
  /\ last' = [NoCall EXCEPT !.op = "processHave", !.index = index]
  /\ UNCHANGED <<inFlightPieces, mutex, pickLocal, outstanding, conn, peerVars, repoVars, sessionVars>>

\* pickPiece: the thread takes the mutex and runs the candidate loop
PickPieceScan(t, peerBitfield, myBitfield) ==
  /\ pickLocal[t].pc = "idle"
  /\ MutexAvailable(mutex)
  /\ mutex' = t
  /\ pickLocal' = [pickLocal EXCEPT ![t] =
       [pc |-> "locked", peerBitfield |-> peerBitfield, myBitfield |-> myBitfield,
        selected |-> pickSelected(pickCandidates(pieceAvailability, inFlightPieces,
                                                 peerBitfield, myBitfield)),
        inFlightAtCall |-> inFlightPieces]]
  /\ last' = NoCall
  /\ UNCHANGED <<pieceAvailability, inFlightPieces, outstanding, conn, peerVars, repoVars, sessionVars>>

\* pickPiece: insert the selection, release the mutex, return
PickPieceReturn(t) ==
  /\ pickLocal[t].pc = "locked"
  /\ LET selected == pickLocal[t].selected
     IN  /\ inFlightPieces' = IF selected = NoPiece THEN inFlightPieces
                              ELSE inFlightPieces \cup {selected}
         /\ outstanding' = IF selected = NoPiece THEN outstanding
                           ELSE [outstanding EXCEPT ![selected] = Bump(@)]
         /\ last' = [NoCall EXCEPT !.op = "pickPiece",
                                   !.bitfield = pickLocal[t].peerBitfield,
                                   !.myBitfield = pickLocal[t].myBitfield,
                                   !.inFlightBefore = pickLocal[t].inFlightAtCall,
                                   !.availBefore = pieceAvailability,
                                   !.result = selected]
  /\ mutex' = NoThread
  /\ pickLocal' = [pickLocal EXCEPT ![t] = IdleLocal]
  /\ UNCHANGED <<pieceAvailability, conn, peerVars, repoVars, sessionVars>>

\* onPiecePassed(index), whole under the mutex
OnPiecePassed(index) ==
  /\ MutexAvailable(mutex)
  /\ inFlightPieces' = inFlightPieces \ {index}
  /\ outstanding' = [outstanding EXCEPT ![index] = 0]
  /\ last' = [NoCall EXCEPT !.op = "onPiecePassed", !.index = index]
  /\ UNCHANGED <<pieceAvailability, mutex, pickLocal, conn, peerVars, repoVars, sessionVars>>

\* onPieceFailed(index), whole under the mutex
OnPieceFailed(index) ==
  /\ MutexAvailable(mutex)
  /\ inFlightPieces' = inFlightPieces \ {index}
  /\ outstanding' = [outstanding EXCEPT ![index] = 0]
  /\ last' = [NoCall EXCEPT !.op = "onPieceFailed", !.index = index]
  /\ UNCHANGED <<pieceAvailability, mutex, pickLocal, conn, peerVars, repoVars, sessionVars>>

PickerNext ==
  \/ \E bitfield \in WireBitfields : ProcessBitfield(bitfield)
  \/ \E bitfield \in WireBitfields : ProcessPeerDisconnect(bitfield)
  \/ \E index \in 0 .. NumPieces : ProcessHave(index)
  \/ \E t \in Threads, peerBitfield \in WireBitfields, myBitfield \in LocalBitfields :
       PickPieceScan(t, peerBitfield, myBitfield)
  \/ \E t \in Threads : PickPieceReturn(t)
  \/ \E index \in Pieces : OnPiecePassed(index)
  \/ \E index \in Pieces : OnPieceFailed(index)


(***************************************************************************)
(* PeerConnection: the transport of one connection.                        *)
(*                                                                         *)
(* An asynchronous operation is "none" (not running), "pending", or        *)
(* complete with its handler queued: "ok", "err" or "aborted".  Closing    *)
(* the socket aborts the pending socket operations; an operation that has  *)
(* completed keeps its result.  Handlers run one at a time on the          *)
(* io_context, and a timer interval does not elapse while a completed      *)
(* operation waits for its handler.                                        *)
(***************************************************************************)
\* sendMessage calls explored on one connection
MaxSends == 2
\* terminal callbacks are counted up to this value
MaxTerminal == 2
\* frames the remote peer sends after the handshake
MaxFrames == 2
\* checks of the 60 s keep-alive timer after which 100 s have elapsed
KeepAliveChecks == 2

Ready == {"ok", "err", "aborted"}

\* the error_code a completion handler receives
ecOf(st) ==
  CASE st = "ok" -> "success"
    [] st = "aborted" -> "operation_aborted"
    [] OTHER -> "io_error"

\* message ids and payloads the logic layer sends: INTERESTED, HAVE
Sendable == { <<2, <<>> >>, <<4, <<0, 0, 0, 1>> >> }

\* bytes 1-19 of a handshake, and the info_hash of the torrent
pstr == "BitTorrent protocol"
infoHash == "a"

\* the 68 bytes a remote peer sends: what the validation reads of them
RemoteHandshakes == [pstr : {pstr, "BitTorrent protocoL"}, infoHash : {infoHash, "b"}]

\* handshakeBuffer_ before the remote handshake has been read
NoHandshake == [pstr |-> "", infoHash |-> ""]

ConnIdle ==
  [ started |-> FALSE, socketOpen |-> FALSE, inbound |-> FALSE,
    post |-> "none", connect |-> "none", timer |-> "none",
    hsWrite |-> "none", hsRead |-> "none",
    read |-> "none", readPhase |-> "header",
    kaTimer |-> "none", lastWriteAge |-> 0,
    speedTimer |-> "none", downloadRate |-> 0, uploadRate |-> 0,
    bytesDownloadedInterval |-> 0, bytesUploadedInterval |-> 0,
    writeQueue |-> <<>>, writes |-> <<>>,
    \* history
    sent |-> <<>>, wire |-> <<>>,
    terminal |-> 0, lastError |-> "none",
    handshakes |-> 0, messages |-> 0, lateMessage |-> FALSE,
    frames |-> 0, frameLength |-> 0, delivered |-> 0,
    outOfOrder |-> FALSE, keepAliveCallback |-> FALSE,
    remote |-> NoHandshake, connected |-> FALSE ]

abort(st) == IF st = "pending" THEN "aborted" ELSE st

\* an operation started on the socket: it fails at once on a closed socket
initiated(c) == IF c.socketOpen THEN "pending" ELSE "err"

\* socket_.close(): every pending socket operation completes as aborted
socketClose(c) ==
  [c EXCEPT !.socketOpen = FALSE,
            !.connect = abort(@), !.hsWrite = abort(@), !.hsRead = abort(@),
            !.read = abort(@),
            !.writes = [k \in DOMAIN c.writes |->
                          [frame |-> c.writes[k].frame, st |-> abort(c.writes[k].st)]]]

\* PeerConnection::close
close(c, ec) ==
  LET c1 == IF c.socketOpen THEN [socketClose(c) EXCEPT !.timer = abort(@)] ELSE c
  IN  [c1 EXCEPT !.terminal = IF @ < MaxTerminal THEN @ + 1 ELSE @,
                 !.lastError = IF ec = "success" THEN "timed_out" ELSE ec]

\* PeerConnection::startAsyncRead
startAsyncRead(c) == [c EXCEPT !.read = initiated(c), !.readPhase = "header"]

\* the buffer sendMessage builds: length prefix, id, payload
Frame(id, payload) == <<1 + Len(payload), id>> \o payload

\* the buffer sendKeepAlivePacket builds: a length prefix of zero
KeepAliveFrame == <<0>>

\* PeerConnection::doWrite
doWrite(c) ==
  IF c.writeQueue = <<>> THEN c
  ELSE [c EXCEPT !.writes = Append(@, [frame |-> Head(c.writeQueue), st |-> initiated(c)])]

startsWriteChain_Always(writeQueue) == TRUE

\* if (writeQueue_.size() == 1)
startsWriteChain(writeQueue) == Len(writeQueue) = 1

\* PeerConnection::sendMessage
sendMessage(c, id, payload) ==
  LET c1 == [c EXCEPT !.writeQueue = Append(@, Frame(id, payload)),
                      !.sent = Append(@, Frame(id, payload))]
  IN  IF startsWriteChain(c1.writeQueue) THEN doWrite(c1) ELSE c1

\* PeerConnection::sendKeepAlivePacket
sendKeepAlivePacket(c) ==
  LET c1 == [c EXCEPT !.writeQueue = Append(@, KeepAliveFrame),
                      !.sent = Append(@, KeepAliveFrame)]
  IN  IF Len(c1.writeQueue) = 1 THEN doWrite(c1) ELSE c1

\* messageHandler_({}, msg), and what the logic layer does inside it
messageHandler(c, reaction) ==
  LET c1 == [c EXCEPT !.messages = IF @ < 1 THEN @ + 1 ELSE @,
                      !.lateMessage = @ \/ c.terminal > 0,
                      !.delivered = c.frames,
                      !.outOfOrder = @ \/ c.frames <= c.delivered,
                      !.keepAliveCallback = @ \/ c.frameLength = 0]
  IN  CASE reaction = "close" -> close(c1, "success")
        [] reaction = "send" -> sendMessage(c1, 2, <<>>)
        [] OTHER -> c1

\* handshakeHandler_({}, peerId), and what the logic layer does inside it
handshakeHandler(c, reaction) ==
  LET c1 == [c EXCEPT !.handshakes = IF @ < 1 THEN @ + 1 ELSE @]
  IN  IF reaction = "send" THEN sendMessage(c1, 2, <<>>) ELSE c1

Reactions(c) ==
  {"none"} \cup (IF c.terminal = 0 THEN {"close"} ELSE {})
           \cup (IF Len(c.sent) < MaxSends THEN {"send"} ELSE {})

\* a completed operation is waiting for its handler
HandlerReady(c) ==
  \/ \E op \in {"post", "connect", "timer", "hsWrite", "hsRead", "read", "kaTimer"} :
        c[op] \in Ready
  \/ \E k \in DOMAIN c.writes : c.writes[k].st \in Ready

\* PeerConnection::startAsOutbound: doConnect (the connect timer and
\* async_connect), or close(bad_address) posted for an address that does not
\* parse
startAsOutbound(c, validAddress) ==
  IF validAddress
  THEN [c EXCEPT !.started = TRUE, !.socketOpen = TRUE,
                 !.timer = "pending", !.connect = "pending"]
  ELSE [c EXCEPT !.started = TRUE, !.post = "ok"]

\* PeerConnection::startAsInbound: asyncReadInboundHandshake
startAsInbound(c) ==
  [c EXCEPT !.started = TRUE, !.inbound = TRUE, !.socketOpen = TRUE,
            !.hsRead = "pending"]

\* PeerConnection(io_context, socket): the connection of an accepted socket
AcceptedConnection == [ConnIdle EXCEPT !.socketOpen = TRUE]

\* a connection is made for an address of the tracker and started
StartAsOutbound(validAddress) ==
  /\ ~conn.started
  /\ conn' = startAsOutbound(conn, validAddress)
  /\ UNCHANGED <<pickerVars, peerVars, repoVars, sessionVars>>

\* the handler posted by startAsOutbound for an invalid address
PostedClose ==
  /\ conn.post = "ok"
  /\ conn' = close([conn EXCEPT !.post = "none"], "bad_address")
  /\ UNCHANGED <<pickerVars, peerVars, repoVars, sessionVars>>

\* startAsInbound on an accepted socket: asyncReadInboundHandshake
StartAsInbound ==
  /\ ~conn.started
  /\ conn' = startAsInbound(conn)
  /\ UNCHANGED <<pickerVars, peerVars, repoVars, sessionVars>>

\* the network completes a pending socket operation
Complete(op, st) ==
  /\ conn[op] = "pending"
  /\ (op = "read" /\ st = "ok" /\ conn.readPhase = "header") => conn.frames < MaxFrames
  /\ conn' = [conn EXCEPT ![op] = st]
  /\ UNCHANGED <<pickerVars, peerVars, repoVars, sessionVars>>

\* the network completes the outstanding write of the queue
CompleteWrite(k, st) ==
  /\ k \in DOMAIN conn.writes
  /\ conn.writes[k].st = "pending"
  /\ conn' = [conn EXCEPT !.writes[k].st = st,
                          !.wire = IF st = "ok" THEN Append(@, conn.writes[k].frame) ELSE @]
  /\ UNCHANGED <<pickerVars, peerVars, repoVars, sessionVars>>

\* the 5 s of timer_ elapse
TimerExpire ==
  /\ conn.timer = "pending"
  /\ ~HandlerReady(conn)
  /\ conn' = [conn EXCEPT !.timer = "ok"]
  /\ UNCHANGED <<pickerVars, peerVars, repoVars, sessionVars>>

\* the 60 s of keepAliveTimer_ elapse
KeepAliveTimerExpire ==
  /\ conn.kaTimer = "pending"
  /\ ~HandlerReady(conn)
  /\ conn' = [conn EXCEPT !.kaTimer = "ok",
                          !.lastWriteAge = IF @ < KeepAliveChecks THEN @ + 1 ELSE @]
  /\ UNCHANGED <<pickerVars, peerVars, repoVars, sessionVars>>

\* handleTimeout
HandleTimeout ==
  /\ conn.timer \in Ready
  /\ LET c == [conn EXCEPT !.timer = "none"]
     IN  conn' = IF conn.timer = "aborted" THEN c ELSE close(c, ecOf(conn.timer))
  /\ UNCHANGED <<pickerVars, peerVars, repoVars, sessionVars>>

\* handleConnect: startKeepAliveTimer and doWriteHandshake on success; the
\* 68 bytes are taken by the fresh socket at once (hsResult)
HandleConnect(hsResult) ==
  /\ conn.connect \in Ready
  /\ LET c == [conn EXCEPT !.connect = "none"]
     IN  conn' =
           IF conn.connect = "aborted" \/ ~conn.socketOpen THEN c
           ELSE LET c1 == [c EXCEPT !.timer = abort(@)]
                IN  IF conn.connect = "err" THEN close(c1, "io_error")
                    ELSE [c1 EXCEPT !.lastWriteAge = 0, !.kaTimer = "pending",
                                    !.hsWrite = hsResult, !.connected = TRUE]
  /\ UNCHANGED <<pickerVars, peerVars, repoVars, sessionVars>>

\* handleWriteHandshake (outbound): doReadHandshake on success
HandleWriteHandshake ==
  /\ ~conn.inbound
  /\ conn.hsWrite \in Ready
  /\ LET c == [conn EXCEPT !.hsWrite = "none"]
     IN  conn' = IF conn.hsWrite # "ok" THEN close(c, ecOf(conn.hsWrite))
                 ELSE [c EXCEPT !.hsRead = initiated(c)]
  /\ UNCHANGED <<pickerVars, peerVars, repoVars, sessionVars>>

validHandshake_AnyInfoHash(handshake) == handshake.pstr = pstr

\* memcmp(&handshakeBuffer_[1], pstr, 19) and
\* memcmp(&handshakeBuffer_[28], infoHash_.data(), 20) both find no difference
validHandshake(handshake) ==
  /\ handshake.pstr = pstr
  /\ handshake.infoHash = infoHash

\* handleReadHandshake (outbound): validate, handshakeHandler_, startAsyncRead;
\* a read that completes without error has transferred all 68 bytes
HandleReadHandshake(handshake, reaction) ==
  /\ ~conn.inbound
  /\ conn.hsRead \in Ready
  /\ LET c == [conn EXCEPT !.hsRead = "none"]
         c1 == [c EXCEPT !.remote = handshake]
     IN  conn' = IF conn.hsRead # "ok" THEN close(c, ecOf(conn.hsRead))
                 ELSE IF ~validHandshake(handshake) THEN close(c1, "success")
                 ELSE startAsyncRead(handshakeHandler(c1, reaction))
  /\ UNCHANGED <<pickerVars, peerVars, repoVars, sessionVars>>

\* handleReadInboundHandshake: validate, asyncWriteInboundHandshake
HandleReadInboundHandshake(handshake, hsResult) ==
  /\ conn.inbound
  /\ conn.hsRead \in Ready
  /\ LET c == [conn EXCEPT !.hsRead = "none"]
         c1 == [c EXCEPT !.remote = handshake]
     IN  conn' = IF conn.hsRead # "ok" THEN close(c, ecOf(conn.hsRead))
                 ELSE IF ~validHandshake(handshake) THEN close(c1, "success")
                 ELSE [c1 EXCEPT !.hsWrite = IF c.socketOpen THEN hsResult ELSE "err"]
  /\ UNCHANGED <<pickerVars, peerVars, repoVars, sessionVars>>

\* handleWriteInboundHandshake: handshakeHandler_, startAsyncRead
HandleWriteInboundHandshake(reaction) ==
  /\ conn.inbound
  /\ conn.hsWrite \in Ready
  /\ LET c == [conn EXCEPT !.hsWrite = "none"]
     IN  conn' = IF conn.hsWrite # "ok" THEN close(c, ecOf(conn.hsWrite))
                 ELSE startAsyncRead(handshakeHandler(c, reaction))
  /\ UNCHANGED <<pickerVars, peerVars, repoVars, sessionVars>>

keepAlive_Never(length) == FALSE

\* if (msgLength == 0)
keepAlive(length) == length = 0

\* else if (msgLength > BLOCK_SIZE + 13)
oversize(msgLength) == msgLength > BLOCK_SIZE + 13

\* length prefixes a remote peer sends: a keep-alive, the shortest and the
\* longest message, and one byte more
FrameLengths == {0, 1, BLOCK_SIZE + 13, BLOCK_SIZE + 14}

\* handleReadHeader: keep-alive, oversize, or read the body
HandleReadHeader(msgLength) ==
  /\ conn.read \in Ready
  /\ conn.readPhase = "header"
  /\ LET c == [conn EXCEPT !.read = "none"]
         c1 == [c EXCEPT !.frames = @ + 1, !.frameLength = msgLength]
     IN  conn' = IF conn.read # "ok" THEN close(c, ecOf(conn.read))
                 ELSE CASE keepAlive(msgLength) -> startAsyncRead(c1)
                        [] oversize(msgLength) -> close(c1, "success")
                        [] OTHER -> [c1 EXCEPT !.read = initiated(c1), !.readPhase = "body"]
  /\ UNCHANGED <<pickerVars, peerVars, repoVars, sessionVars>>

\* handleReadBody: messageHandler_({}, msg), then startAsyncRead
HandleReadBody(reaction) ==
  /\ conn.read \in Ready
  /\ conn.readPhase = "body"
  /\ LET c == [conn EXCEPT !.read = "none"]
     IN  conn' = IF conn.read # "ok" THEN close(c, ecOf(conn.read))
                 ELSE startAsyncRead(messageHandler(c, reaction))
  /\ UNCHANGED <<pickerVars, peerVars, repoVars, sessionVars>>

\* bytesTransferred of a completed write: the length prefix of 4 bytes and
\* the bytes it announces
bytesTransferred(frame) == 4 + frame[1]

\* handleWrite, the completion handler of the write at the head of the chain
HandleWrite(k) ==
  /\ k \in DOMAIN conn.writes
  /\ conn.writes[k].st \in Ready
  /\ LET st == conn.writes[k].st
         c == [conn EXCEPT !.writes = [j \in 1 .. (Len(@) - 1) |->
                                         IF j < k THEN @[j] ELSE @[j + 1]]]
     IN  conn' =
           IF st # "ok" THEN close([c EXCEPT !.writeQueue = <<>>], ecOf(st))
           ELSE LET c1 == [c EXCEPT !.writeQueue = IF @ = <<>> THEN @ ELSE Tail(@),
                                    !.lastWriteAge = 0,
                                    !.bytesUploadedInterval =
                                       @ + bytesTransferred(conn.writes[k].frame)]
                IN  IF c1.writeQueue # <<>> THEN doWrite(c1) ELSE c1
  /\ UNCHANGED <<pickerVars, peerVars, repoVars, sessionVars>>

\* checkKeepAlive
CheckKeepAlive ==
  /\ conn.kaTimer \in Ready
  /\ LET c == [conn EXCEPT !.kaTimer = "none"]
     IN  conn' =
           IF conn.kaTimer = "aborted" \/ ~conn.socketOpen THEN c
           ELSE LET c1 == IF c.lastWriteAge >= KeepAliveChecks /\ Len(c.sent) < MaxSends
                          THEN sendKeepAlivePacket(c) ELSE c
                IN  [c1 EXCEPT !.kaTimer = "pending"]
  /\ UNCHANGED <<pickerVars, peerVars, repoVars, sessionVars>>

\* the logic layer calls sendMessage
SendMessage(id, payload) ==
  /\ conn.handshakes > 0
  /\ Len(conn.sent) < MaxSends
  /\ conn' = sendMessage(conn, id, payload)
  /\ UNCHANGED <<pickerVars, peerVars, repoVars, sessionVars>>

\* the logic layer calls close() on a connection it has not been told is over
Close ==
  /\ conn.started
  /\ conn.terminal = 0
  /\ conn' = close(conn, "success")
  /\ UNCHANGED <<pickerVars, peerVars, repoVars, sessionVars>>

ConnNext ==
  \/ \E validAddress \in BOOLEAN : StartAsOutbound(validAddress)
  \/ PostedClose
  \/ StartAsInbound
  \/ \E op \in {"connect", "hsRead", "read"}, st \in {"ok", "err"} : Complete(op, st)
  \/ \E k \in 1 .. MaxSends, st \in {"ok", "err"} : CompleteWrite(k, st)
  \/ TimerExpire
  \/ KeepAliveTimerExpire
  \/ HandleTimeout
  \/ \E hsResult \in {"ok", "err"} : HandleConnect(hsResult)
  \/ HandleWriteHandshake
  \/ \E handshake \in RemoteHandshakes, reaction \in Reactions(conn) \ {"close"} :
       HandleReadHandshake(handshake, reaction)
  \/ \E handshake \in RemoteHandshakes, hsResult \in {"ok", "err"} :
       HandleReadInboundHandshake(handshake, hsResult)
  \/ \E reaction \in Reactions(conn) \ {"close"} : HandleWriteInboundHandshake(reaction)
  \/ \E msgLength \in FrameLengths : HandleReadHeader(msgLength)
  \/ \E reaction \in Reactions(conn) : HandleReadBody(reaction)
  \/ \E k \in 1 .. MaxSends : HandleWrite(k)
  \/ CheckKeepAlive
  \/ \E m \in Sendable : SendMessage(m[1], m[2])
  \/ Close

(***************************************************************************)
(* The peer protocol logic (peer/peer.cpp): one instance per remote peer,  *)
(* all of them writing the client's bitfield.  A message is handled        *)
(* whole: handleMessage, then doAction.                                    *)
(***************************************************************************)
\* the remote peers; Seed holds every piece and answers every request
Peers == {"p1", "p2"}
Seed == "p1"

MAX_PIPELINE_SIZE == 5
\* CHOKE messages the remote peers send
MaxChokes == 1
\* corrupt blocks the remote peers send
MaxCorrupt == 2
\* failed verifications of one peer are counted up to this value
MaxFailures == 3
\* availability counts explored when the peers' messages drive the picker
MaxCount == 3

\* pieceLength_ and totalLength_: two blocks a piece, the second one short,
\* and a last piece shorter than a block
SmallTorrent ==
  [ pieceLength |-> BLOCK_SIZE + 1,
    totalLength |-> NumPieces * (BLOCK_SIZE + 1) - BLOCK_SIZE ]

\* a torrent whose pieces have more blocks than the pipeline holds, and
\* whose last block is short
LargeTorrent ==
  [ pieceLength |-> (MAX_PIPELINE_SIZE + 1) * BLOCK_SIZE,
    totalLength |-> NumPieces * (MAX_PIPELINE_SIZE + 1) * BLOCK_SIZE - 1 ]

\* a torrent whose pieces are one block each
BlockTorrent ==
  [ pieceLength |-> BLOCK_SIZE, totalLength |-> NumPieces * BLOCK_SIZE ]

pieceLength == torrent.pieceLength
totalLength == torrent.totalLength

\* the true length of piece i (requestPiece, thisPieceLength)
thisPieceLength(i) ==
  IF i * pieceLength + pieceLength > totalLength
  THEN totalLength - i * pieceLength
  ELSE pieceLength

\* the bytes of piece i in the torrent: every piece has its own byte value
TrueContent(i) == [k \in 1 .. thisPieceLength(i) |-> i + 1]

\* SHA1 of a buffer, free of collisions
SHA1(data) == <<"sha1", data>>

\* *pieceHashes_ : the expected hash of every piece
pieceHashes == [i \in Pieces |-> SHA1(TrueContent(i))]

verifyPieceHash_AcceptAll(buffer, pieceIndex) == TRUE

\* PeerConnection::verifyPieceHash
verifyPieceHash(buffer, pieceIndex) ==
  IF buffer = <<>> THEN FALSE
  ELSE pieceIndex \in Pieces /\ SHA1(buffer) = pieceHashes[pieceIndex]

\* PeerConnection::clientHasPiece
clientHasPiece(my, pieceIndex) ==
  LET byte_index == pieceIndex \div 8
  IN  IF byte_index >= Len(my) THEN FALSE
      ELSE TestBit(my[byte_index + 1], 7 - (pieceIndex % 8))

\* std::vector::resize(n): the prefix is kept, new bytes are zero
resize(buffer, n) == [k \in 1 .. n |-> IF k <= Len(buffer) THEN buffer[k] ELSE 0]

\* PeerConnection::setHavePiece
setHavePiece(bitfield, pieceIndex) ==
  LET byte_index == pieceIndex \div 8
      grown == IF byte_index >= Len(bitfield) THEN resize(bitfield, byte_index + 1)
               ELSE bitfield
  IN  [grown EXCEPT ![byte_index + 1] = OrBit(@, 7 - (pieceIndex % 8))]

\* the first piece the peer has and the client lacks, NumPieces if none
firstWanted_Last(bitfield, my) ==
  LET wanted == { i \in Pieces : hasPiece(bitfield, i) /\ ~clientHasPiece(my, i) }
  IN  IF wanted = {} THEN NumPieces
      ELSE CHOOSE i \in wanted : \A j \in wanted : i >= j

firstWanted(bitfield, my) ==
  LET wanted == { i \in Pieces : hasPiece(bitfield, i) /\ ~clientHasPiece(my, i) }
  IN  IF wanted = {} THEN NumPieces
      ELSE CHOOSE i \in wanted : \A j \in wanted : i <= j

\* the members of a freshly constructed peer.  bitfieldUpdated holds the
\* values the member can have: one value once it is assigned or read, and
\* both of them before, as bitfieldUpdated_ has no
\* initializer
NewPeer ==
  [ connected |-> TRUE, bitfield |-> <<>>, bitfieldUpdated |-> BOOLEAN,
    amInterested |-> FALSE, peerChoking |-> TRUE,
    inFlightRequests |-> <<>>, nextPieceIndex |-> 0, nextBlockOffset |-> 0,
    currentPieceBuffer |-> <<>> ]

\* PeerConnection::requestPiece, the loop that fills the pipeline
RECURSIVE requestLoop(_, _)
requestLoop(s, my) ==
  IF Len(s.inFlightRequests) >= MAX_PIPELINE_SIZE THEN s
  ELSE
    LET found == firstWanted(s.bitfield, my)
        s1 == IF s.nextBlockOffset # 0 THEN s
              ELSE IF found = NumPieces THEN [s EXCEPT !.bitfieldUpdated = {FALSE}]
              ELSE [s EXCEPT !.nextPieceIndex = found,
                             !.currentPieceBuffer = resize(@, thisPieceLength(found))]
    IN  IF s.nextBlockOffset = 0 /\ found = NumPieces THEN s1
        ELSE IF s1.nextBlockOffset >= Len(s1.currentPieceBuffer)
             THEN [s1 EXCEPT !.bitfieldUpdated = {FALSE}]
        ELSE
          LET blockLength == IF s1.nextBlockOffset + BLOCK_SIZE > pieceLength
                             THEN pieceLength - s1.nextBlockOffset
                             ELSE BLOCK_SIZE
          IN  requestLoop(
                [s1 EXCEPT !.inFlightRequests =
                              Append(@, [pieceIndex |-> s1.nextPieceIndex,
                                         begin |-> s1.nextBlockOffset,
                                         length |-> blockLength]),
                           !.nextBlockOffset = @ + blockLength],
                my)

\* PeerConnection::requestPiece
requestPiece_StartOver(s, my) ==
  IF s.bitfieldUpdated = {FALSE} THEN s
  ELSE requestLoop(IF s.nextBlockOffset >= Len(s.currentPieceBuffer)
                   THEN [s EXCEPT !.nextBlockOffset = 0] ELSE s, my)

requestPiece(s, my) == IF s.bitfieldUpdated = {FALSE} THEN s ELSE requestLoop(s, my)

\* PeerConnection::checkAndSendInterested
checkAndSendInterested(s, my) ==
  IF s.amInterested THEN s
  ELSE IF firstWanted(s.bitfield, my) # NumPieces THEN [s EXCEPT !.amInterested = TRUE]
  ELSE s

\* PeerConnection::doAction
doAction_Always(s, my) ==
  requestPiece(checkAndSendInterested(s, my), my)

doAction(s, my) ==
  LET s1 == checkAndSendInterested(s, my)
  IN  IF s1.amInterested /\ ~s1.peerChoking THEN requestPiece(s1, my) ELSE s1


\* PeerConnection::handleChoke.  The read of inFlightRequests_[0] after
\* clear() finds the element that was first.
handleChoke(s) ==
  IF s.inFlightRequests = <<>> THEN [s EXCEPT !.peerChoking = TRUE]
  ELSE [s EXCEPT !.peerChoking = TRUE,
                 !.inFlightRequests = <<>>,
                 !.nextPieceIndex = Head(s.inFlightRequests).pieceIndex,
                 !.nextBlockOffset = Head(s.inFlightRequests).begin]

\* memcpy(&currentPieceBuffer_[begin], blockData, blockLength)
copyBlock(buffer, begin, data) ==
  [k \in 1 .. Len(buffer) |->
     IF k > begin /\ k <= begin + Len(data) THEN data[k - begin] ELSE buffer[k]]

\* a PIECE is matched to a request by index and begin alone
handlePiece_AnyLength(x, pieceIndex, begin, data) ==
  LET same == { k \in DOMAIN x.s.inFlightRequests :
                  /\ x.s.inFlightRequests[k].pieceIndex = pieceIndex
                  /\ x.s.inFlightRequests[k].begin = begin }
  IN  IF same = {} THEN x
      ELSE [x EXCEPT !.s.inFlightRequests =
              [k \in 1 .. (Len(@) - 1) |->
                 IF k < (CHOOSE j \in same : TRUE) THEN @[k] ELSE @[k + 1]]]

\* PeerConnection::handlePiece on the state x = [s, my, hist] of one peer,
\* the client's bitfield and the history
handlePiece(x, pieceIndex, begin, data) ==
  LET s == x.s
      matching == { k \in DOMAIN s.inFlightRequests :
                      /\ s.inFlightRequests[k].pieceIndex = pieceIndex
                      /\ s.inFlightRequests[k].begin = begin
                      /\ s.inFlightRequests[k].length = Len(data) }
  IN  IF matching = {} THEN x
      ELSE
        LET it == CHOOSE k \in matching : \A j \in matching : k <= j
            requests == [k \in 1 .. (Len(s.inFlightRequests) - 1) |->
                           IF k < it THEN s.inFlightRequests[k]
                           ELSE s.inFlightRequests[k + 1]]
            s1 == [s EXCEPT !.inFlightRequests = requests]
        IN  IF ~(pieceIndex = s.nextPieceIndex
                 /\ begin + Len(data) <= Len(s.currentPieceBuffer))
            THEN [x EXCEPT !.s = s1]
            ELSE
              LET buffer == copyBlock(s.currentPieceBuffer, begin, data)
                  pieceFinished ==
                    /\ s.nextBlockOffset >= Len(buffer)
                    /\ \A k \in DOMAIN requests :
                          requests[k].pieceIndex # s.nextPieceIndex
              IN  IF ~pieceFinished
                  THEN [x EXCEPT !.s = [s1 EXCEPT !.currentPieceBuffer = buffer]]
                  ELSE IF verifyPieceHash(buffer, pieceIndex)
                  THEN [p |-> x.p,
                        s |-> [s1 EXCEPT !.nextBlockOffset = 0,
                                         !.nextPieceIndex = @ + 1,
                                         !.currentPieceBuffer = <<>>],
                        my |-> setHavePiece(x.my, pieceIndex),
                        hist |-> [x.hist EXCEPT !.saved[pieceIndex] = buffer]]
                  ELSE [x EXCEPT !.s = [s1 EXCEPT !.nextBlockOffset = 0,
                                                  !.currentPieceBuffer = <<>>],
                                 !.hist.failures[x.p] =
                                     IF @ < MaxFailures THEN @ + 1 ELSE @]

\* the block an honest peer sends for a request, and a corrupt one
BlockData(request, good) ==
  [k \in 1 .. request.length |-> IF good THEN request.pieceIndex + 1 ELSE 0]

\* a request an honest peer can serve
Servable(request) ==
  /\ request.pieceIndex \in Pieces
  /\ request.begin + request.length <= thisPieceLength(request.pieceIndex)

\* handleReadBody after the message: doAction, and the loop goes on; a
\* member read before its first assignment has either value
AfterMessage(p, x) ==
  /\ \E value \in x.s.bitfieldUpdated :
        peers' = [peers EXCEPT ![p] =
                    doAction([x.s EXCEPT !.bitfieldUpdated = {value}], x.my)]
  /\ clientBitfield' = x.my
  /\ hist' = x.hist
  /\ UNCHANGED <<crashed, pickerVars, conn, repoVars, sessionVars, torrent>>

Here(p) == [p |-> p, s |-> peers[p], my |-> clientBitfield, hist |-> hist]

Receiving(p) ==
  /\ ~crashed
  /\ peers[p].connected
  /\ p = Seed => peers[p].bitfield # <<>>

\* history: the requests a CHOKE of the seed drops
Dropped(p) == IF p = Seed THEN peers[p].inFlightRequests ELSE hist.dropped

\* CHOKE (id 0).  A build with checked element access aborts on the read
\* of the cleared vector.
ReceiveChoke(p, checked) ==
  /\ Receiving(p)
  /\ hist.chokes < MaxChokes
  /\ p = Seed => ~peers[p].peerChoking
  /\ IF checked /\ peers[p].inFlightRequests # <<>>
     THEN /\ crashed' = TRUE
          /\ peers' = [peers EXCEPT ![p].peerChoking = TRUE, ![p].inFlightRequests = <<>>]
          /\ hist' = [hist EXCEPT !.chokes = @ + 1,
                                   !.dropped = Dropped(p)]
          /\ UNCHANGED <<clientBitfield, pickerVars, conn, repoVars, sessionVars, torrent>>
     ELSE AfterMessage(p, [Here(p) EXCEPT
                              !.s = handleChoke(@),
                              !.hist.chokes = @ + 1,
                              !.hist.dropped = Dropped(p)])

\* UNCHOKE (id 1)
ReceiveUnchoke(p) ==
  /\ Receiving(p)
  /\ p = Seed => peers[p].peerChoking
  /\ AfterMessage(p, [Here(p) EXCEPT !.s.peerChoking = FALSE,
                                     !.hist.dropped = IF p = Seed THEN <<>> ELSE @])

\* HAVE (id 4)
ReceiveHave(p, pieceIndex) ==
  /\ Receiving(p)
  /\ p # Seed
  /\ AfterMessage(p, [Here(p) EXCEPT !.s.bitfield = setHavePiece(@, pieceIndex),
                                     !.s.bitfieldUpdated = {TRUE}])

\* BITFIELD (id 5)
ReceiveBitfield(p, bitfield) ==
  /\ ~crashed
  /\ peers[p].connected
  /\ p = Seed => (peers[p].bitfield = <<>> /\ bitfield = makeBitfield(Pieces))
  /\ AfterMessage(p, [Here(p) EXCEPT !.s.bitfield = bitfield,
                                     !.s.bitfieldUpdated = {TRUE}])

\* PIECE (id 7) answering the k-th request in flight
ReceivePiece(p, k, good) ==
  /\ Receiving(p)
  /\ k \in DOMAIN peers[p].inFlightRequests
  /\ p = Seed => (good /\ Servable(peers[p].inFlightRequests[k]))
  /\ ~good => hist.corrupt < MaxCorrupt
  /\ LET request == peers[p].inFlightRequests[k]
         x == [Here(p) EXCEPT !.hist.corrupt = IF good THEN @ ELSE @ + 1]
     IN  AfterMessage(p, handlePiece(x, request.pieceIndex, request.begin,
                                     BlockData(request, good)))

\* PIECE (id 7) that answers no request in flight; the history notes the
\* ones the seed sends
ReceiveUnrequestedPiece(p, pieceIndex, begin, length) ==
  LET block == [pieceIndex |-> pieceIndex, begin |-> begin, length |-> length]
      x == [Here(p) EXCEPT !.hist.unmatched = IF p = Seed THEN 1 - @ ELSE @]
  IN  /\ Receiving(p)
      /\ \A k \in DOMAIN peers[p].inFlightRequests :
            peers[p].inFlightRequests[k] # block
      /\ AfterMessage(p, handlePiece(x, pieceIndex, begin, BlockData(block, FALSE)))

\* the read fails: handleReadBody returns and the loop stops
Disconnect(p) ==
  /\ Receiving(p)
  /\ p # Seed
  /\ peers' = [peers EXCEPT ![p].connected = FALSE]
  /\ UNCHANGED <<clientBitfield, crashed, hist, pickerVars, conn, repoVars, sessionVars, torrent>>

PeerNext ==
  \/ \E p \in Peers, checked \in BOOLEAN : ReceiveChoke(p, checked)
  \/ \E p \in Peers : ReceiveUnchoke(p)
  \/ \E p \in Peers, pieceIndex \in Pieces : ReceiveHave(p, pieceIndex)
  \/ \E p \in Peers, bitfield \in WireBitfields : ReceiveBitfield(p, bitfield)
  \/ \E p \in Peers, k \in 1 .. MAX_PIPELINE_SIZE, good \in BOOLEAN : ReceivePiece(p, k, good)
  \/ \E p \in Peers \ {Seed}, pieceIndex \in Pieces :
       ReceiveUnrequestedPiece(p, pieceIndex, 0, 1)
  \/ \E p \in Peers : Disconnect(p)

\* the client is given the metadata of another torrent
LoadTorrent(t) ==
  /\ torrent # t
  /\ peers = [p \in Peers |-> NewPeer]
  /\ torrent' = t
  /\ UNCHANGED <<peers, clientBitfield, crashed, hist, pickerVars, conn, repoVars, sessionVars>>

\* one peer that has every piece, on a torrent of large pieces or of
\* pieces of one block
PipelineNext ==
  \/ \E t \in {LargeTorrent, BlockTorrent} : LoadTorrent(t)
  \/ \E checked \in BOOLEAN : ReceiveChoke(Seed, checked)
  \/ ReceiveUnchoke(Seed)
  \/ ReceiveBitfield(Seed, makeBitfield(Pieces))
  \/ \E k \in 1 .. MAX_PIPELINE_SIZE : ReceivePiece(Seed, k, TRUE)
  \/ \E pieceIndex \in Pieces, begin \in {0, BLOCK_SIZE}, length \in {1, BLOCK_SIZE} :
       ReceiveUnrequestedPiece(Seed, pieceIndex, begin, length)

\* what the seed does on its own: BITFIELD, UNCHOKE, the answer to a request
SeedStep ==
  \/ ReceiveBitfield(Seed, makeBitfield(Pieces))
  \/ ReceiveUnchoke(Seed)
  \/ \E k \in 1 .. MAX_PIPELINE_SIZE : ReceivePiece(Seed, k, TRUE)

NoHistory ==
  [saved |-> [i \in Pieces |-> <<>>], failures |-> [p \in Peers |-> 0],
   chokes |-> 0, corrupt |-> 0, dropped |-> <<>>, unmatched |-> 0,
   \* pieces handed back for another try (onPieceFailed, unassignPiece): no
   \* handler of PeerConnection makes such a call
   handedBack |-> <<>>]

(***************************************************************************)
(* Availability as the peers' messages drive it: on BITFIELD, HAVE and     *)
(* disconnect the peer updates its copy of the remote bitfield and         *)
(* notifies the picker.                                                    *)
(***************************************************************************)
AvailRest == <<inFlightPieces, mutex, pickLocal, last, outstanding, conn,
               clientBitfield, crashed, hist, torrent, repoVars, sessionVars>>

\* BITFIELD: handleBitfield, then processBitfield(bitfield)
AvailBitfield(p, bitfield) ==
  /\ peers[p].connected
  /\ \A i \in Pieces : pieceAvailability[i] < MaxCount
  /\ peers' = [peers EXCEPT ![p].bitfield = bitfield, ![p].bitfieldUpdated = {TRUE}]
  /\ pieceAvailability' = processBitfieldAvail(pieceAvailability, bitfield)
  /\ UNCHANGED AvailRest

\* HAVE: setHavePiece, then processHave(pieceIndex)
AvailHave(p, pieceIndex) ==
  /\ peers[p].connected
  /\ pieceIndex \in Pieces => pieceAvailability[pieceIndex] < MaxCount
  /\ peers' = [peers EXCEPT ![p].bitfield = setHavePiece(@, pieceIndex),
                            ![p].bitfieldUpdated = {TRUE}]
  /\ pieceAvailability' = processHaveAvail(pieceAvailability, pieceIndex)
  /\ UNCHANGED AvailRest

\* disconnect: processPeerDisconnect(peer bitfield)
AvailDisconnect(p) ==
  /\ peers[p].connected
  /\ peers' = [peers EXCEPT ![p].connected = FALSE]
  /\ pieceAvailability' = processPeerDisconnectAvail(pieceAvailability, peers[p].bitfield)
  /\ UNCHANGED AvailRest

\* a new connection takes the place of one that is gone
AvailConnect(p) ==
  /\ ~peers[p].connected
  /\ peers' = [peers EXCEPT ![p] = NewPeer]
  /\ UNCHANGED <<pieceAvailability, AvailRest>>

AvailNext ==
  \/ \E p \in Peers, bitfield \in WireBitfields : AvailBitfield(p, bitfield)
  \/ \E p \in Peers, pieceIndex \in 0 .. NumPieces : AvailHave(p, pieceIndex)
  \/ \E p \in Peers : AvailDisconnect(p)
  \/ \E p \in Peers : AvailConnect(p)

(***************************************************************************)
(* TorrentSession (client/torrentSession): the list of active peers.  The  *)
(* peers report their events to the picker as above; a peer without a      *)
(* piece asks the picker for one, and a peer whose connection reports an    *)
(* error gives back what it held.                                           *)
(***************************************************************************)
\* connections explored on one session, the first ones included
MaxActivePeers == 3

\* the peers the tracker returned, in the order connectToPeers dials them
trackerPeers == <<"p1", "p2">>

SessionRest == <<mutex, pickLocal, last, outstanding, conn, choker, session, upload,
                 clientBitfield, crashed, hist, torrent, repoVars>>

\* the piece a peer is downloading: the index of its piece buffer
Assigned(p) ==
  IF peers[p].currentPieceBuffer = <<>> THEN NoPiece ELSE peers[p].nextPieceIndex

\* a peer without a piece asks pickPiece(peer bitfield, my bitfield) for one
SessionAssign(p) ==
  LET selected == pickSelected(pickCandidates(pieceAvailability, inFlightPieces,
                                              peers[p].bitfield, clientBitfield))
  IN  /\ peers[p].connected
      /\ Assigned(p) = NoPiece
      /\ selected # NoPiece
      /\ inFlightPieces' = inFlightPieces \cup {selected}
      /\ peers' = [peers EXCEPT ![p].nextPieceIndex = selected,
                                ![p].currentPieceBuffer =
                                    resize(@, thisPieceLength(selected))]
      /\ UNCHANGED <<pieceAvailability, activePeers, SessionRest>>

\* disconnect: processPeerDisconnect(peer bitfield), onPieceFailed(current
\* piece) when one is in progress.  TorrentSession has no handler for a
\* peer that is gone: activePeers_ is only ever appended to.
SessionDisconnect(p) ==
  /\ peers[p].connected
  /\ peers' = [peers EXCEPT ![p].connected = FALSE]
  /\ pieceAvailability' = processPeerDisconnectAvail(pieceAvailability, peers[p].bitfield)
  /\ inFlightPieces' = inFlightPieces \ {Assigned(p)}
  /\ activePeers' = activePeers
  /\ UNCHANGED SessionRest

\* what TorrentSession::handleInboundConnection starts on the connection
\* of the accepted socket: peer->startAsOutbound(infoHash, peerId, session);
\* the address is the remote endpoint of the socket, which parses
startInbound(c) == startAsOutbound(c, TRUE)

\* TorrentSession::handleInboundConnection: a connection for the accepted
\* socket and a new Peer, started and appended to the list; conn is the
\* connection of the last peer accepted
handleInboundConnection(p) ==
  /\ ~peers[p].connected
  /\ Len(activePeers) < MaxActivePeers
  /\ peers' = [peers EXCEPT ![p] = NewPeer]
  /\ conn' = startInbound(AcceptedConnection)
  /\ activePeers' = Append(activePeers, p)
  /\ UNCHANGED <<pieceAvailability, inFlightPieces, mutex, pickLocal, last, outstanding,
                 choker, session, upload, clientBitfield, crashed, hist, torrent,
                 repoVars>>

SessionNext ==
  \/ \E p \in Peers, bitfield \in WireBitfields : AvailBitfield(p, bitfield)
  \/ \E p \in Peers, pieceIndex \in 0 .. NumPieces : AvailHave(p, pieceIndex)
  \/ \E p \in Peers : SessionAssign(p)
  \/ \E p \in Peers : SessionDisconnect(p)
  \/ \E p \in Peers : handleInboundConnection(p)

(***************************************************************************)
(* TitForTatChoking (client/chokingAlgorithm).  A peer is what rechoke     *)
(* reads and writes of it: uploadRate, the bytes written to the peer in    *)
(* the last interval (PeerConnection::uploadRate_), received, the bytes    *)
(* the peer sent in the last interval, and amChoking.  std::sort leaves    *)
(* the order of peers of equal rate open and the optimistic slot is drawn  *)
(* at random, so the order of the vector carries nothing: it is kept       *)
(* sorted by PeerKey.                                                      *)
(***************************************************************************)
\* the rates explored are 0 .. MaxRate
MaxRate == 1

\* size_t regularSlots = 4
regularSlots == 4

\* peers handed to rechoke: enough for the regular slots, the optimistic
\* slot and one peer more
MaxChokerPeers == regularSlots + 2

ChokerRest == <<pickerVars, conn, peerVars, repoVars, activePeers, session, upload>>

ChokerIdle == [ peers |-> <<>>, last |-> "none" ]

\* a new Peer: amChoking_ = true, the counters of its connection are zero;
\* history of the last rechoke: the flag before it (was) and the messages
\* it made the peer send (sent)
NewChokerPeer ==
  [ uploadRate |-> 0, received |-> 0, amChoking |-> TRUE, was |-> TRUE, sent |-> <<>> ]

\* the history of a round ends with the next event
forget(qs) == [i \in DOMAIN qs |-> [qs[i] EXCEPT !.was = qs[i].amChoking, !.sent = <<>>]]

PeerKey(q) ==
  6 * (4 * q.uploadRate * (MaxRate + 1) + 2 * q.received + (IF q.amChoking THEN 1 ELSE 0))
    + 3 * (IF q.was THEN 1 ELSE 0) + Len(q.sent)

RECURSIVE SortedByKey(_)
SortedByKey(qs) ==
  IF qs = <<>> THEN <<>>
  ELSE LET k == CHOOSE i \in DOMAIN qs :
                  \A j \in DOMAIN qs : PeerKey(qs[i]) >= PeerKey(qs[j])
           rest == [j \in 1 .. (Len(qs) - 1) |-> IF j < k THEN qs[j] ELSE qs[j + 1]]
       IN  <<qs[k]>> \o SortedByKey(rest)

\* the positions std::sort may put first: as many as there are regular
\* slots, none of them with a lower getUploadRate() than a peer left out
SortedFirst(qs, top) ==
  /\ Cardinality(top) = (IF Len(qs) < regularSlots THEN Len(qs) ELSE regularSlots)
  /\ \A i \in top, j \in DOMAIN qs \ top : qs[i].uploadRate >= qs[j].uploadRate

\* Peer::setAmChoking(value): the flag, and CHOKE or UNCHOKE on the
\* connection when the flag changes
peerSetAmChoking(q, value) ==
  [q EXCEPT !.amChoking = value,
            !.sent = IF value = q.amChoking THEN @
                     ELSE Append(@, IF value THEN "CHOKE" ELSE "UNCHOKE")]

RECURSIVE applyCalls(_, _)
applyCalls(q, calls) ==
  IF calls = <<>> THEN q ELSE applyCalls(peerSetAmChoking(q, Head(calls)), Tail(calls))

rechokeCalls_ChokeRestFirst(qs, top, lucky) ==
  [i \in DOMAIN qs |->
     IF i \in top THEN (IF qs[i].amChoking THEN <<FALSE>> ELSE <<>>)
     ELSE (IF ~qs[i].amChoking THEN <<TRUE>> ELSE <<>>) \o
          (IF i = lucky THEN <<FALSE>> ELSE <<>>)]

\* the setAmChoking calls of TitForTatChoking::rechoke after the sort, peer
\* by peer: each is made only if isAmChoking() differs from the value
rechokeCalls(qs, top, lucky) ==
  [i \in DOMAIN qs |->
     IF i \in top THEN (IF qs[i].amChoking THEN <<FALSE>> ELSE <<>>)
     ELSE IF i = lucky THEN (IF qs[i].amChoking THEN <<FALSE>> ELSE <<>>)
     ELSE (IF ~qs[i].amChoking THEN <<TRUE>> ELSE <<>>)]

\* TitForTatChoking::rechoke after the sort: the first regularSlots peers
\* are unchoked, the lucky one of the others too, the others are choked
rechokeFlags(qs, top, lucky) ==
  [i \in DOMAIN qs |-> applyCalls(qs[i], rechokeCalls(qs, top, lucky)[i])]

\* a peer connects and is handed to the next rechoke
ChokerConnect ==
  /\ Len(choker.peers) < MaxChokerPeers
  /\ choker' = [peers |-> SortedByKey(Append(forget(choker.peers), NewChokerPeer)),
                last |-> "none"]
  /\ UNCHANGED ChokerRest

\* PeerConnection::calculateSpeed of peer i: uploadRate_ takes the bytes
\* written in the interval; the bytes the peer sent are received
calculateSpeed(i, written, received) ==
  /\ i \in DOMAIN choker.peers
  /\ choker.peers[i].uploadRate # written \/ choker.peers[i].received # received
  /\ choker' = [peers |-> SortedByKey([forget(choker.peers) EXCEPT
                                          ![i].uploadRate = written,
                                          ![i].received = received]),
                last |-> "none"]
  /\ UNCHANGED ChokerRest

\* TitForTatChoking::rechoke(peers)
Rechoke ==
  /\ IF choker.peers = <<>>
     THEN choker' = [choker EXCEPT !.last = "rechoke"]
     ELSE \E top \in SUBSET DOMAIN choker.peers :
            /\ SortedFirst(choker.peers, top)
            /\ \E lucky \in DOMAIN choker.peers :
                  /\ (DOMAIN choker.peers \ top # {}) => lucky \notin top
                  /\ (DOMAIN choker.peers \ top = {}) =>
                        lucky = CHOOSE i \in top : TRUE
                  /\ choker' = [peers |-> SortedByKey(rechokeFlags(forget(choker.peers),
                                                                   top, lucky)),
                                last |-> "rechoke"]
  /\ UNCHANGED ChokerRest

ChokerNext ==
  \/ ChokerConnect
  \/ \E i \in 1 .. MaxChokerPeers, written \in 0 .. MaxRate, received \in 0 .. MaxRate :
       calculateSpeed(i, written, received)
  \/ Rechoke

\* the same with the rate rechoke sorts by only
RechokeNext ==
  \/ ChokerConnect
  \/ \E i \in 1 .. MaxChokerPeers, written \in 0 .. MaxRate : calculateSpeed(i, written, 0)
  \/ Rechoke

(***************************************************************************)
(* TorrentSession (client/torrentSession): work assignment.  The session   *)
(* keeps its own rarity map (pieceAvailability_), the set of pieces it     *)
(* handed out (assignedPieces_) and the client's bitfield (myBitfield_);   *)
(* peerHas is what Peer::hasPiece answers for each peer.                   *)
(***************************************************************************)
AssignRest == <<pickerVars, conn, peerVars, repoVars, activePeers, choker, upload>>

\* the calls of assignWorkForPeer remembered: the latest ones in a row
MaxReturned == 3
\* HAVE messages counted for one piece
MaxHaves == 2

SessionIdle ==
  [ peerHas |-> [p \in Peers |-> <<>>],
    pieceAvailability |-> [i \in Pieces |-> 0],
    assignedPieces |-> {},
    myBitfield |-> makeBitfield({}),
    returned |-> <<>> ]

RECURSIVE sortCandidates(_, _)
\* std::sort of the candidates by rarity, then by index
sortCandidates_ByIndex(candidates, avail) ==
  IF candidates = {} THEN <<>>
  ELSE LET first == CHOOSE a \in candidates : \A b \in candidates : a <= b
       IN  <<first>> \o sortCandidates(candidates \ {first}, avail)

sortCandidates(candidates, avail) ==
  IF candidates = {} THEN <<>>
  ELSE LET first == CHOOSE a \in candidates : \A b \in candidates :
                       \/ avail[a] < avail[b]
                       \/ avail[a] = avail[b] /\ a <= b
       IN  <<first>> \o sortCandidates(candidates \ {first}, avail)

\* pieces the peer has, the client lacks and nobody is assigned, rarest first
getSortedCandidatePieces(peerBitfield, avail, assignedPieces, my) ==
  sortCandidates({ i \in Pieces : /\ hasPiece(peerBitfield, i)
                                  /\ ~clientHasPiece(my, i)
                                  /\ i \notin assignedPieces },
                 avail)

\* pieces[dis(gen)], dis uniform over 0 .. poolSize - 1: every outcome
getTopRandomPiece(pieces, randomVariance) ==
  LET poolSize == IF Len(pieces) < randomVariance THEN Len(pieces) ELSE randomVariance
  IN  { pieces[k + 1] : k \in 0 .. (poolSize - 1) }

\* the latest calls in a row, the oldest one dropped at MaxReturned
Returned(returned, call) ==
  IF Len(returned) < MaxReturned THEN Append(returned, call)
  ELSE Append(Tail(returned), call)

\* TorrentSession::assignWorkForPeer(peer)
assignWorkForPeer(p) ==
  LET sortedPieces == getSortedCandidatePieces(session.peerHas[p],
                        session.pieceAvailability, session.assignedPieces,
                        session.myBitfield)
      call(result) == [peer |-> p, result |-> result,
                       before |-> session.assignedPieces]
  IN  /\ IF sortedPieces = <<>>
         THEN session' = [session EXCEPT
                !.returned = Returned(@, call(NoPiece))]
         ELSE \E chosenPieceIndex \in getTopRandomPiece(sortedPieces, 1) :
                session' = [session EXCEPT
                  !.assignedPieces = @ \cup {chosenPieceIndex},
                  !.returned = Returned(@, call(chosenPieceIndex))]
      /\ UNCHANGED AssignRest

\* HAVE(pieceIndex) from peer p: the peer records the bit, then
\* TorrentSession::onHaveReceived
onHaveReceived(p, pieceIndex) ==
  /\ pieceIndex \in Pieces => session.pieceAvailability[pieceIndex] < MaxHaves
  /\ session' = [session EXCEPT
       !.peerHas[p] = setHavePiece(@, pieceIndex),
       !.pieceAvailability = processHaveAvail(@, pieceIndex),
       !.returned = <<>>]
  /\ UNCHANGED AssignRest

\* TorrentSession::unassignPiece(pieceIndex)
unassignPiece(pieceIndex) ==
  /\ session' = [session EXCEPT !.assignedPieces = @ \ {pieceIndex},
                                !.returned = <<>>]
  /\ UNCHANGED AssignRest

\* a verified piece: updateMyBitfield(pieceIndex), then onPieceCompleted
onPieceCompleted(pieceIndex) ==
  /\ pieceIndex \in session.assignedPieces
  /\ session' = [session EXCEPT
       !.myBitfield = setHavePiece(@, pieceIndex),
       !.assignedPieces = @ \ {pieceIndex},
       !.returned = <<>>]
  /\ UNCHANGED AssignRest

AssignNext ==
  \/ \E p \in Peers : assignWorkForPeer(p)
  \/ \E p \in Peers, pieceIndex \in Pieces : onHaveReceived(p, pieceIndex)
  \/ \E pieceIndex \in Pieces : unassignPiece(pieceIndex)
  \/ \E pieceIndex \in Pieces : onPieceCompleted(pieceIndex)

(***************************************************************************)
(* PieceRepository (client/pieceRepository) over DiskTorrentStorage        *)
(* (client/torrentStorage): the local bitfield, and the bytes of the       *)
(* torrent laid out over the files of the files table.  An exception is    *)
(* the field error of a call's result; what was written before it is       *)
(* thrown stays written.                                                   *)
(***************************************************************************)
\* savePiece calls explored on one repository
MaxSaves == 2

\* files tables: the lengths of the files in order; one file, two files, or
\* three of which the middle one is empty
FileTables == { <<totalLength>>, <<1, totalLength - 1>>, <<2, 0, totalLength - 2>> }

Min_Left(a, b) == a

\* std::min
Min(a, b) == IF a < b THEN a ELSE b

\* addFileItemToFiles over the files list: files_ with the global offsets
RECURSIVE fileEntries(_, _, _)
fileEntries(lengths, k, currentGlobalOffset) ==
  IF k > Len(lengths) THEN <<>>
  ELSE <<[length |-> lengths[k], globalOffset |-> currentGlobalOffset]>>
       \o fileEntries(lengths, k + 1, currentGlobalOffset + lengths[k])

\* createFileStructure: every file has its length, filled with zeros
createFileStructure(files) ==
  [k \in DOMAIN files |-> [j \in 1 .. files[k].length |-> 0]]

\* the loop of processFileRange from file k on
RECURSIVE processFileRangeFrom(_, _, _, _, _)
processFileRangeFrom(files, k, currentGlobal, bytesRemaining, chunks) ==
  IF k > Len(files) \/ bytesRemaining = 0
  THEN [chunks |-> chunks, error |-> bytesRemaining > 0]
  ELSE
    LET fileStart == files[k].globalOffset
        fileEnd == fileStart + files[k].length
    IN  IF currentGlobal >= fileStart /\ currentGlobal < fileEnd
        THEN LET localOffset == currentGlobal - fileStart
                 available == files[k].length - localOffset
                 chunk == Min(bytesRemaining, available)
             IN  processFileRangeFrom(files, k + 1, currentGlobal + chunk,
                                      bytesRemaining - chunk,
                                      Append(chunks, [file |-> k,
                                                      localOffset |-> localOffset,
                                                      chunk |-> chunk]))
        ELSE processFileRangeFrom(files, k + 1, currentGlobal, bytesRemaining, chunks)

\* processFileRange: the chunks the operation is called on, in order, and
\* whether it throws at the end
processFileRange(files, globalOffset, length) ==
  processFileRangeFrom(files, 1, globalOffset, length, <<>>)

RECURSIVE writeChunks_FromStart(_, _, _, _)
writeChunks_FromStart(disk, chunks, data, dataOffset) ==
  IF chunks = <<>> THEN disk
  ELSE LET c == Head(chunks)
           file == [j \in DOMAIN disk[c.file] |->
                      IF j > c.localOffset /\ j <= c.localOffset + c.chunk
                      THEN data[j - c.localOffset]
                      ELSE disk[c.file][j]]
       IN  writeChunks_FromStart([disk EXCEPT ![c.file] = file], Tail(chunks), data,
                                 dataOffset)

\* writeOp on every chunk: seekp(localOffset), write(data + dataOffset, chunk)
RECURSIVE writeChunks(_, _, _, _)
writeChunks(disk, chunks, data, dataOffset) ==
  IF chunks = <<>> THEN disk
  ELSE LET c == Head(chunks)
           file == [j \in DOMAIN disk[c.file] |->
                      IF j > c.localOffset /\ j <= c.localOffset + c.chunk
                      THEN data[dataOffset + (j - c.localOffset)]
                      ELSE disk[c.file][j]]
       IN  writeChunks([disk EXCEPT ![c.file] = file], Tail(chunks), data,
                       dataOffset + c.chunk)

\* readOp on every chunk: seekg(localOffset), read(buffer + bufferOffset, chunk)
RECURSIVE readChunks(_, _)
readChunks(disk, chunks) ==
  IF chunks = <<>> THEN <<>>
  ELSE LET c == Head(chunks)
       IN  SubSeq(disk[c.file], c.localOffset + 1, c.localOffset + c.chunk)
           \o readChunks(disk, Tail(chunks))

\* DiskTorrentStorage::writePiece
writePiece(st, pieceIndex, data) ==
  LET walk == processFileRange(st.files, pieceIndex * pieceLength, Len(data))
  IN  [storage |-> [st EXCEPT !.disk = writeChunks(@, walk.chunks, data, 0)],
       error |-> walk.error]

\* DiskTorrentStorage::readBlock
readBlock(st, pieceIndex, begin, length) ==
  LET walk == processFileRange(st.files, pieceIndex * pieceLength + begin, length)
  IN  [data |-> IF walk.error THEN <<>> ELSE readChunks(st.disk, walk.chunks),
       error |-> walk.error]

\* PieceRepository::havePiece
havePiece(myBitfield, index) ==
  LET byteIndex == index \div 8
  IN  IF byteIndex >= Len(myBitfield) THEN FALSE
      ELSE TestBit(myBitfield[byteIndex + 1], 7 - (index % 8))

updateBitfield_Overwrite(myBitfield, index) ==
  LET byteIndex == index \div 8
  IN  IF byteIndex < Len(myBitfield)
      THEN [myBitfield EXCEPT ![byteIndex + 1] = Pow2(7 - (index % 8))]
      ELSE myBitfield

\* PieceRepository::updateBitfield
updateBitfield(myBitfield, index) ==
  LET byteIndex == index \div 8
  IN  IF byteIndex < Len(myBitfield)
      THEN [myBitfield EXCEPT ![byteIndex + 1] = OrBit(@, 7 - (index % 8))]
      ELSE myBitfield

\* PieceRepository::verifyHash
verifyHash(index, data) ==
  IF index >= NumPieces THEN FALSE ELSE SHA1(data) = pieceHashes[index]

\* PieceRepository::savePiece: writePiece, then updateBitfield
savePiece(r, st, index, data) ==
  LET w == writePiece(st, index, data)
  IN  [myBitfield |-> IF w.error THEN r.myBitfield ELSE updateBitfield(r.myBitfield, index),
       storage |-> w.storage,
       error |-> w.error]

repositoryReadBlock_NoCheck(r, st, index, begin, length) ==
  LET b == readBlock(st, index, begin, length)
  IN  [data |-> b.data, error |-> b.error, storageReads |-> 1]

\* PieceRepository::readBlock
repositoryReadBlock(r, st, index, begin, length) ==
  IF ~havePiece(r.myBitfield, index)
  THEN [data |-> <<>>, error |-> TRUE, storageReads |-> 0]
  ELSE LET b == readBlock(st, index, begin, length)
       IN  [data |-> b.data, error |-> b.error, storageReads |-> 1]

\* index arguments: the pieces, the first index past them, and the first
\* index past the bitfield
RepoIndices == Pieces \cup {NumPieces, 8 * BitfieldSize}

\* lengths of the data passed to savePiece for a piece
SaveLengths(index) ==
  {0, 1, pieceLength + 1} \cup
  (IF index \in Pieces THEN {thisPieceLength(index)} ELSE {pieceLength})

\* the data of the n-th save: every save writes bytes of its own
SaveData(n, length) == [k \in 1 .. length |-> 10 * n + k]

RepoIdle ==
  [ initialized |-> FALSE, myBitfield |-> <<>>, saves |-> 0,
    \* history: the last call and its outcome
    last |-> [op |-> "none", index |-> 0, begin |-> 0, length |-> 0,
              data |-> <<>>, error |-> FALSE, storageReads |-> 0] ]

StorageIdle == [ files |-> <<>>, disk |-> <<>> ]

RepoRest == <<pickerVars, conn, peerVars, sessionVars, pool, callers, work>>

\* PieceRepository::initialize and DiskTorrentStorage::initialize
Initialize(lengths) ==
  /\ ~repo.initialized
  /\ LET files == fileEntries(lengths, 1, 0)
     IN  storage' = [files |-> files, disk |-> createFileStructure(files)]
  /\ repo' = [repo EXCEPT !.initialized = TRUE,
                          !.myBitfield = [b \in 1 .. BitfieldSize |-> 0]]
  /\ UNCHANGED RepoRest

\* a call of savePiece
SavePiece(index, length) ==
  /\ repo.initialized
  /\ repo.saves < MaxSaves
  /\ LET data == SaveData(repo.saves + 1, length)
         x == savePiece(repo, storage, index, data)
     IN  /\ storage' = x.storage
         /\ repo' = [repo EXCEPT !.myBitfield = x.myBitfield,
                                 !.saves = @ + 1,
                                 !.last = [op |-> "savePiece", index |-> index,
                                           begin |-> 0, length |-> length,
                                           data |-> data, error |-> x.error,
                                           storageReads |-> 0]]
  /\ UNCHANGED RepoRest

\* a call of PieceRepository::readBlock
ReadBlock(index, begin, length) ==
  /\ repo.initialized
  /\ LET x == repositoryReadBlock(repo, storage, index, begin, length)
     IN  repo' = [repo EXCEPT !.last = [op |-> "readBlock", index |-> index,
                                        begin |-> begin, length |-> length,
                                        data |-> x.data, error |-> x.error,
                                        storageReads |-> x.storageReads]]
  /\ UNCHANGED <<storage, RepoRest>>

\* a call of verifyHash, on the piece's data or on other bytes
VerifyHash(index, good) ==
  /\ repo.initialized
  /\ LET data == IF good /\ index \in Pieces THEN TrueContent(index) ELSE <<0>>
     IN  repo' = [repo EXCEPT !.last = [op |-> "verifyHash", index |-> index,
                                        begin |-> 0, length |-> Len(data),
                                        data |-> data,
                                        error |-> ~verifyHash(index, data),
                                        storageReads |-> 0]]
  /\ UNCHANGED <<storage, RepoRest>>

RepoNext ==
  \/ \E lengths \in FileTables : Initialize(lengths)
  \/ \E index \in RepoIndices : \E length \in SaveLengths(index) : SavePiece(index, length)
  \/ \E index \in RepoIndices, begin \in {0, 1}, length \in {0, 1, pieceLength} :
       ReadBlock(index, begin, length)
  \/ \E index \in RepoIndices, good \in BOOLEAN : VerifyHash(index, good)

(***************************************************************************)
(* Serving a peer: a REQUEST is answered from the repository.  The handler *)
(* of REQUEST is the one of the peer state machine: ignore while           *)
(* am_choking, ignore a length above the limit, else read the block and    *)
(* send it as PIECE; a failed read is logged and dropped.                  *)
(***************************************************************************)
\* the largest block served: eight blocks (131072 bytes for blocks of 16384)
MAX_REQUEST_LENGTH == 8 * BLOCK_SIZE

\* a torrent whose pieces are longer than the largest block served
WideTorrent ==
  [ pieceLength |-> MAX_REQUEST_LENGTH + 1,
    totalLength |-> NumPieces * (MAX_REQUEST_LENGTH + 1) ]

UploadIdle ==
  [ amChoking |-> TRUE, closed |-> FALSE,
    \* history: the last REQUEST and what was done with it
    last |-> [op |-> "none", index |-> 0, begin |-> 0, length |-> 0,
              choking |-> TRUE, sent |-> FALSE, data |-> <<>>] ]

UploadRest == <<pickerVars, conn, peerVars, repoVars, activePeers, choker, session>>

\* Peer::setAmChoking, as rechoke calls it
setAmChoking(value) ==
  /\ upload.amChoking # value
  /\ upload' = [upload EXCEPT !.amChoking = value, !.last.op = "none"]
  /\ UNCHANGED UploadRest

\* REQUEST (id 6) with (index, begin, length)
handleRequest(index, begin, length) ==
  LET x == repositoryReadBlock(repo, storage, index, begin, length)
      sent == /\ ~upload.amChoking
              /\ length <= MAX_REQUEST_LENGTH
              /\ ~x.error
  IN  /\ repo.initialized
      /\ upload' = [upload EXCEPT
           !.last = [op |-> "request", index |-> index, begin |-> begin,
                     length |-> length, choking |-> upload.amChoking,
                     sent |-> sent, data |-> IF sent THEN x.data ELSE <<>>]]
      /\ UNCHANGED UploadRest

UploadNext ==
  \/ ~repo.initialized /\ LoadTorrent(WideTorrent)
  \/ \E lengths \in FileTables : Initialize(lengths)
  \/ \E index \in Pieces : SavePiece(index, thisPieceLength(index))
  \/ \E value \in BOOLEAN : setAmChoking(value)
  \/ \E index \in Pieces \cup {NumPieces}, begin \in {0, 1},
        length \in {1, MAX_REQUEST_LENGTH, MAX_REQUEST_LENGTH + 1} :
       handleRequest(index, begin, length)

(***************************************************************************)
(* DiskTorrentStorage: the pool of open files.  filePool_ is a list of     *)
(* nodes (path, stream), most recently used first; openFilesMap_ maps a    *)
(* path to an iterator, which stays with its node wherever the node moves  *)
(* in the list.  A node is named by the number of its stream.              *)
(***************************************************************************)
\* MAX_OPEN_FILES, scaled down
MAX_OPEN_FILES == 2

\* the paths of the files of the torrent
FilePaths == 1 .. (MAX_OPEN_FILES + 2)

\* openFilesMap.end(): the path is not a key
NoNode == 0

PoolRest == <<pickerVars, conn, peerVars, repo, storage, callers, work, sessionVars>>

PoolIdle ==
  [ filePool |-> <<>>, openFilesMap |-> [path \in FilePaths |-> NoNode],
    \* history: the last call, the list before it, and what it did
    last |-> [op |-> "none", path |-> NoNode, before |-> <<>>, opened |-> FALSE,
              stream |-> NoNode] ]

\* the position of the node an iterator points at
nodeAt(filePool, node) == CHOOSE k \in DOMAIN filePool : filePool[k].node = node

\* std::list::erase
eraseAt(filePool, k) ==
  [j \in 1 .. (Len(filePool) - 1) |-> IF j < k THEN filePool[j] ELSE filePool[j + 1]]

getFileStreamFromMap_NoSplice(p, pathStr) == p

\* getFileStreamFromMap, the path being a key:
\* filePool.splice(filePool.begin(), filePool, it->second)
getFileStreamFromMap(p, pathStr) ==
  LET k == nodeAt(p.filePool, p.openFilesMap[pathStr])
  IN  [p EXCEPT !.filePool = <<p.filePool[k]>> \o eraseAt(p.filePool, k)]

\* the least recently used node is removed when the pool is full
evictLast(p) ==
  IF Len(p.filePool) >= MAX_OPEN_FILES
  THEN LET lastIt == Len(p.filePool)
           lastPath == p.filePool[lastIt].path
       IN  [p EXCEPT !.openFilesMap[lastPath] = NoNode,
                     !.filePool = eraseAt(p.filePool, lastIt)]
  ELSE p

\* std::make_unique<std::fstream>(): a stream no node of the pool holds
newStream(p) ==
  CHOOSE n \in 1 .. (MAX_OPEN_FILES + 1) :
     \A k \in DOMAIN p.filePool : p.filePool[k].node # n

\* DiskTorrentStorage::getFileStream; opens: the file can be opened
getFileStream(path, opens) ==
  LET call == [op |-> "none", path |-> path, before |-> pool.filePool,
               opened |-> FALSE, stream |-> NoNode]
      hit == getFileStreamFromMap(pool, path)
      p1 == evictLast(pool)
      stream == newStream(p1)
  IN  /\ pool' =
           IF pool.openFilesMap[path] # NoNode
           THEN [hit EXCEPT !.last = [call EXCEPT !.op = "hit",
                                                  !.stream = pool.openFilesMap[path]]]
           ELSE IF ~opens
           THEN [p1 EXCEPT !.last = [call EXCEPT !.op = "error", !.opened = TRUE]]
           ELSE [p1 EXCEPT !.filePool = <<[path |-> path, node |-> stream]>> \o @,
                           !.openFilesMap[path] = stream,
                           !.last = [call EXCEPT !.op = "miss", !.opened = TRUE,
                                                 !.stream = stream]]
      /\ UNCHANGED PoolRest

PoolNext == \E path \in FilePaths, opens \in BOOLEAN : getFileStream(path, opens)

(***************************************************************************)
(* PieceRepository called from several threads.  A call is a sequence of   *)
(* steps: savePiece runs storage_->writePiece and then updateBitfield,     *)
(* which takes mutex_; readBlock runs havePiece, which takes and releases  *)
(* mutex_, and then storage_->readBlock.  The storage has no lock of its   *)
(* own: two threads inside it race on filePool_, openFilesMap_ and the     *)
(* streams, and what that does to them is not defined.                     *)
(***************************************************************************)
CallersRest == <<pickerVars, conn, peerVars, repo, storage, pool, work, sessionVars>>

IdleCall == [op |-> "none", step |-> "idle", index |-> 0]

CallersIdle ==
  [ mutex |-> NoThread, myBitfield |-> makeBitfield({}),
    written |-> [i \in Pieces |-> "none"],
    at |-> [t \in Threads |-> IdleCall],
    damaged |-> FALSE,
    \* history: a reader saw a bit whose piece was not wholly written
    early |-> FALSE ]

\* the threads inside DiskTorrentStorage (the range walk and the file pool)
InStorage(c) == { t \in Threads : c.at[t].step \in {"writePiece", "readBlock"} }

\* a thread enters the storage: alone, or racing with the threads inside
enterStorage(c, t, op, step, index) ==
  { [c EXCEPT !.at[t] = [op |-> op, step |-> step, index |-> index],
              !.damaged = d] :
      d \in {c.damaged} \cup (IF InStorage(c) \ {t} # {} THEN {TRUE} ELSE {}) }

\* savePiece(index, data) is called: storage_->writePiece begins
CallSavePiece(t, index) ==
  /\ callers.at[t] = IdleCall
  /\ callers' \in enterStorage(callers, t, "savePiece", "writePiece", index)
  /\ UNCHANGED CallersRest

\* readBlock, havePiece or getBitfield is called: std::lock_guard is next
CallReader(t, op, index) ==
  /\ callers.at[t] = IdleCall
  /\ callers' = [callers EXCEPT !.at[t] = [op |-> op, step |-> "lock", index |-> index]]
  /\ UNCHANGED CallersRest

\* DiskTorrentStorage::writePiece writes the bytes of the piece, file by
\* file; when it returns, savePiece goes on to updateBitfield
WritePiece(t) ==
  LET index == callers.at[t].index
  IN  /\ callers.at[t].step = "writePiece"
      /\ callers' =
           IF callers.written[index] = "none"
           THEN [callers EXCEPT !.written[index] = "partial"]
           ELSE [callers EXCEPT !.written[index] = "whole", !.at[t].step = "lock"]
      /\ UNCHANGED CallersRest

\* std::lock_guard<std::mutex> lock(mutex_)
Lock(t) ==
  /\ callers.at[t].step = "lock"
  /\ callers.mutex = NoThread
  /\ callers' = [callers EXCEPT !.mutex = t, !.at[t].step = "locked"]
  /\ UNCHANGED CallersRest

\* the body of updateBitfield, havePiece or getBitfield, and the end of the
\* lock_guard; readBlock goes on to storage_->readBlock if it has the piece
Unlock(t) ==
  LET call == callers.at[t]
      seen == IF call.op = "getBitfield"
              THEN { i \in Pieces : havePiece(callers.myBitfield, i) }
              ELSE IF call.op \in {"havePiece", "readBlock"}
                      /\ havePiece(callers.myBitfield, call.index)
              THEN {call.index} ELSE {}
      c == [callers EXCEPT
              !.mutex = NoThread,
              !.at[t] = IdleCall,
              !.myBitfield = IF call.op = "savePiece"
                             THEN updateBitfield(@, call.index) ELSE @,
              !.early = @ \/ \E i \in seen : callers.written[i] # "whole"]
  IN  /\ call.step = "locked"
      /\ callers.mutex = t
      /\ callers' \in IF call.op = "readBlock" /\ seen # {}
                      THEN enterStorage(c, t, "readBlock", "readBlock", call.index)
                      ELSE {c}
      /\ UNCHANGED CallersRest

\* DiskTorrentStorage::readBlock returns
ReadBlockReturn(t) ==
  /\ callers.at[t].step = "readBlock"
  /\ callers' = [callers EXCEPT !.at[t] = IdleCall]
  /\ UNCHANGED CallersRest

CallersNext ==
  \E t \in Threads :
     \/ \E index \in Pieces : CallSavePiece(t, index)
     \/ \E op \in {"readBlock", "havePiece", "getBitfield"}, index \in Pieces :
          CallReader(t, op, IF op = "getBitfield" THEN 0 ELSE index)
     \/ WritePiece(t)
     \/ Lock(t)
     \/ Unlock(t)
     \/ ReadBlockReturn(t)

(***************************************************************************)
(* Peers at work on several threads: each takes a copy of the client's     *)
(* bitfield from the repository, asks the picker for a piece with it,      *)
(* downloads the piece, and on a good hash saves it and releases it in     *)
(* the picker.  Each call is whole under the mutex of its object; between  *)
(* two calls of one peer the other peers run.                              *)
(***************************************************************************)
WorkRest == <<pieceAvailability, mutex, pickLocal, last, outstanding, conn, peerVars,
              repo, storage, pool, sessionVars>>

NoWork == [step |-> "idle", myBitfield |-> makeBitfield({}), piece |-> NoPiece]

WorkIdle == [t \in Threads |-> NoWork]

\* repo->getBitfield(): the copy the peer goes on with
PeerGetBitfield(t) ==
  /\ work[t].step = "idle"
  /\ work' = [work EXCEPT ![t] = [step |-> "copied", myBitfield |-> callers.myBitfield,
                                  piece |-> NoPiece]]
  /\ UNCHANGED <<inFlightPieces, callers, WorkRest>>

\* picker->pickPiece(peerBitfield, myBitfield) with the copy
PeerPickPiece(t, peerBitfield) ==
  LET selected == pickSelected(pickCandidates(pieceAvailability, inFlightPieces,
                                              peerBitfield, work[t].myBitfield))
  IN  /\ work[t].step = "copied"
      /\ MutexAvailable(mutex)
      /\ inFlightPieces' = IF selected = NoPiece THEN inFlightPieces
                           ELSE inFlightPieces \cup {selected}
      /\ work' = [work EXCEPT ![t] = IF selected = NoPiece THEN NoWork
                                     ELSE [@ EXCEPT !.step = "downloading",
                                                    !.piece = selected]]
      /\ UNCHANGED <<callers, WorkRest>>

\* the piece is complete and its hash is good: repo->savePiece(piece, data)
PeerSavePiece(t) ==
  /\ work[t].step = "downloading"
  /\ callers.mutex = NoThread
  /\ callers' = [callers EXCEPT !.written[work[t].piece] = "whole",
                                !.myBitfield = updateBitfield(@, work[t].piece)]
  /\ work' = [work EXCEPT ![t].step = "saved"]
  /\ UNCHANGED <<inFlightPieces, WorkRest>>

\* then picker->onPiecePassed(piece)
PeerOnPiecePassed(t) ==
  /\ work[t].step = "saved"
  /\ MutexAvailable(mutex)
  /\ inFlightPieces' = inFlightPieces \ {work[t].piece}
  /\ work' = [work EXCEPT ![t] = NoWork]
  /\ UNCHANGED <<callers, WorkRest>>

\* the piece is complete and its hash is bad: picker->onPieceFailed(piece)
PeerOnPieceFailed(t) ==
  /\ work[t].step = "downloading"
  /\ MutexAvailable(mutex)
  /\ inFlightPieces' = inFlightPieces \ {work[t].piece}
  /\ work' = [work EXCEPT ![t] = NoWork]
  /\ UNCHANGED <<callers, WorkRest>>

WorkNext ==
  \E t \in Threads :
     \/ PeerGetBitfield(t)
     \/ \E peerBitfield \in LocalBitfields : PeerPickPiece(t, peerBitfield)
     \/ PeerSavePiece(t)
     \/ PeerOnPiecePassed(t)
     \/ PeerOnPieceFailed(t)

(***************************************************************************)
(* Specifications.                                                         *)
(***************************************************************************)
\* the state after construction
Init ==
  /\ pieceAvailability = [i \in Pieces |-> 0]
  /\ inFlightPieces = {}
  /\ mutex = NoThread
  /\ pickLocal = [t \in Threads |-> IdleLocal]
  /\ last = NoCall
  /\ outstanding = [i \in Pieces |-> 0]
  /\ conn = ConnIdle
  /\ peers = [p \in Peers |-> NewPeer]
  /\ clientBitfield = makeBitfield({})
  /\ crashed = FALSE
  /\ hist = NoHistory
  /\ torrent = SmallTorrent
  /\ repo = RepoIdle
  /\ storage = StorageIdle
  /\ pool = PoolIdle
  /\ callers = CallersIdle
  /\ work = WorkIdle
  /\ activePeers = trackerPeers
  /\ choker = ChokerIdle
  /\ session = SessionIdle
  /\ upload = UploadIdle

SpecPicker == Init /\ [][PickerNext]_vars

\* the repository under concurrent callers
SpecCallers == Init /\ [][CallersNext]_vars

\* rounds of rechoke over peers of changing upload rates
SpecRechoke == Init /\ [][RechokeNext]_vars

\* peers on several threads between the repository and the picker
SpecWork == Init /\ [][WorkNext]_vars

\* the file pool under any sequence of getFileStream calls
SpecPool == Init /\ [][PoolNext]_vars

SpecConn == Init /\ [][ConnNext]_vars

\* the peers of one client
Spec == Init /\ [][PeerNext]_vars

\* the same, where the seed and the event loop keep going
FairSpec == Init /\ [][PeerNext]_vars /\ WF_vars(SeedStep)

\* one peer filling its pipeline
SpecPipeline == Init /\ [][PipelineNext]_vars

\* the picker's availability under the peers' messages
SpecAvail == Init /\ [][AvailNext]_vars

\* the repository over the files on disk
SpecRepo == Init /\ [][RepoNext]_vars

\* the session, its peers and the picker
SpecSession == Init /\ [][SessionNext]_vars

\* the choking controller and the peers it is handed
SpecChoker == Init /\ [][ChokerNext]_vars

\* the session's work assignment and the events that feed it
SpecAssign == Init /\ [][AssignNext]_vars

\* the requests of one peer served from the repository
SpecUpload == Init /\ [][UploadNext]_vars

(***************************************************************************)
(* What "bitfield has piece i" means in the claims: the bit 7 - (i mod 8)  *)
(* of byte i div 8, and a bit outside the field is not set.                *)
(***************************************************************************)
BitfieldHas(bitfield, i) ==
  /\ (i \div 8) + 1 <= Len(bitfield)
  /\ TestBit(bitfield[(i \div 8) + 1], 7 - (i % 8))

\* S of the selection algorithm, for the last completed pickPiece call
EligibleAtLastPick ==
  { i \in Pieces : /\ BitfieldHas(last.bitfield, i)
                   /\ ~BitfieldHas(last.myBitfield, i)
                   /\ i \notin last.inFlightBefore }

(***************************************************************************)
(* C2: pickPiece never returns an index that my_bitfield has, that         *)
(* peer_bitfield lacks, or that was in in_flight when the call was made;   *)
(* every returned index is below the number of pieces.                     *)
(***************************************************************************)
C2_PickNeverIneligible ==
  (last.op = "pickPiece" /\ last.result # NoPiece) =>
     /\ last.result \in 0 .. (NumPieces - 1)
     /\ ~BitfieldHas(last.myBitfield, last.result)
     /\ BitfieldHas(last.bitfield, last.result)
     /\ last.result \notin last.inFlightBefore

\* a pick that returned a piece although another piece the peer has was
\* excluded as held locally and a third one as in flight
C2_Witness ==
  /\ last.op = "pickPiece"
  /\ last.result # NoPiece
  /\ \E j \in Pieces : BitfieldHas(last.bitfield, j) /\
        (BitfieldHas(last.myBitfield, j) \/ j \in last.inFlightBefore)

(***************************************************************************)
(* C3: once pickPiece has returned i, no other pickPiece call of any       *)
(* thread returns i until onPiecePassed(i) or onPieceFailed(i); that call  *)
(* releases i.                                                             *)
(***************************************************************************)
C3_NoDoublePick ==
  /\ \A i \in Pieces : outstanding[i] <= 1
  /\ (last.op \in {"onPiecePassed", "onPieceFailed"}) =>
        (last.index \notin inFlightPieces /\ outstanding[last.index] = 0)

\* a later pickPiece call, for which piece i would be eligible but for the
\* lock another call holds on it, has returned without i
C3_Witness ==
  /\ last.op = "pickPiece"
  /\ \E i \in Pieces :
        /\ outstanding[i] = 1
        /\ i # last.result
        /\ i \in last.inFlightBefore
        /\ BitfieldHas(last.bitfield, i)
        /\ ~BitfieldHas(last.myBitfield, i)

(***************************************************************************)
(* C5: pickPiece returns none exactly when S is empty; otherwise it        *)
(* returns the lowest index of S whose availability is the minimum over S, *)
(* and that index is in in_flight when the call returns.                   *)
(***************************************************************************)
C5_RarestFirstLowestIndex ==
  (last.op = "pickPiece") =>
     /\ (last.result = NoPiece) <=> (EligibleAtLastPick = {})
     /\ (EligibleAtLastPick # {}) =>
          /\ last.result \in EligibleAtLastPick
          /\ \A j \in EligibleAtLastPick :
                /\ pieceAvailability[last.result] <= pieceAvailability[j]
                /\ (pieceAvailability[j] = pieceAvailability[last.result])
                      => last.result <= j
          /\ last.result \in inFlightPieces

\* a rarer piece was returned although a lower index was eligible too
C5_Witness ==
  /\ last.op = "pickPiece"
  /\ last.result # NoPiece
  /\ \E j \in EligibleAtLastPick :
        j < last.result /\ pieceAvailability[j] > pieceAvailability[last.result]

(***************************************************************************)
(* C7: processBitfield(B) followed by processPeerDisconnect(B) leaves      *)
(* every availability count and in_flight as they were before the pair.    *)
(***************************************************************************)
C7_BitfieldThenDisconnectRestores ==
  (last.op = "processPeerDisconnect" /\ last.pairedWith = "processBitfield") =>
     /\ pieceAvailability = last.availBefore
     /\ inFlightPieces = last.inFlightBefore

\* the pair ran for a bitfield with a piece, over counts that were not all zero
C7_Witness ==
  /\ last.op = "processPeerDisconnect"
  /\ last.pairedWith = "processBitfield"
  /\ \E i \in Pieces : BitfieldHas(last.bitfield, i)
  /\ \E i \in Pieces : ~BitfieldHas(last.bitfield, i) /\ last.availBefore[i] > 0

(***************************************************************************)
(* C9: over any sequence of connect failure or timeout, handshake failure, *)
(* read or write error, oversize frame and explicit close(), the message   *)
(* callback is invoked with an error and an absent message exactly once    *)
(* per connection, and no message is delivered to it afterwards.           *)
(***************************************************************************)
C9_OneTerminalCallback ==
  /\ conn.terminal <= 1
  /\ ~conn.lateMessage

(***************************************************************************)
(* C10: at most one asynchronous socket write of a connection is           *)
(* outstanding at any time, and the framed buffers, messages and           *)
(* keep-alives, reach the wire whole and in the order they were enqueued.  *)
(***************************************************************************)
C10_WritesSerialised ==
  /\ Len(conn.writes) + (IF conn.hsWrite = "none" THEN 0 ELSE 1) <= 1
  /\ Len(conn.wire) <= Len(conn.sent)
  /\ \A k \in 1 .. Len(conn.wire) :
        /\ conn.wire[k] = conn.sent[k]
        /\ Len(conn.wire[k]) = IF conn.wire[k][1] = 0 THEN 1 ELSE conn.wire[k][1] + 1

\* a keep-alive waits in the queue behind the message that is being written
C10_Witness ==
  /\ Len(conn.writeQueue) = 2
  /\ Len(conn.writes) = 1
  /\ conn.writes[1].st = "pending"
  /\ conn.writes[1].frame = conn.writeQueue[1]
  /\ conn.writeQueue[2] = KeepAliveFrame
  /\ conn.writeQueue[1] # KeepAliveFrame

(***************************************************************************)
(* C1: bit i of the client's bitfield is set only if a buffer of piece     *)
(* i's true length was assembled from received blocks and passed           *)
(* verification for exactly the bytes kept; a buffer that fails            *)
(* verification is never kept.                                             *)
(***************************************************************************)
C1_BitOnlyAfterVerify ==
  \A i \in Pieces :
     /\ BitfieldHas(clientBitfield, i) =>
          /\ hist.saved[i] = TrueContent(i)
          /\ Len(hist.saved[i]) = thisPieceLength(i)
          /\ \A k \in DOMAIN hist.saved[i] : hist.saved[i][k] # 0
     /\ hist.saved[i] \in {<<>>, TrueContent(i)}

\* a piece is held after a buffer with a corrupt block was refused
C1_Witness ==
  /\ \E p \in Peers : hist.failures[p] > 0
  /\ \E i \in Pieces : BitfieldHas(clientBitfield, i) /\ hist.saved[i] = TrueContent(i)

(***************************************************************************)
(* C4: no two connected peers have the same current assigned piece, after  *)
(* any sequence of picks, hash failures, CHOKE/UNCHOKE and disconnects.    *)
(***************************************************************************)
C4_NoSharedAssignment ==
  \A p, q \in Peers :
     (p # q /\ peers[p].connected /\ peers[q].connected /\ Assigned(p) # NoPiece)
        => Assigned(p) # Assigned(q)

(***************************************************************************)
(* C6: after any sequence of BITFIELD, HAVE and disconnect events,         *)
(* availability[i] is the number of connected peers whose last-known       *)
(* bitfield has bit i set.                                                 *)
(***************************************************************************)
C6_AvailabilityCountsPeers ==
  \A i \in Pieces :
     pieceAvailability[i] =
        Cardinality({ p \in Peers : peers[p].connected /\ BitfieldHas(peers[p].bitfield, i) })

(***************************************************************************)
(* C8: with a connected peer that holds every piece, unchokes the client   *)
(* for good and answers every request correctly, eventually every bit      *)
(* 0..N-1 of the client's bitfield is set, whatever finitely many hash     *)
(* failures, choke cycles and disconnects of other peers happen.           *)
(***************************************************************************)
C8_DownloadCompletes == <>(\A i \in Pieces : BitfieldHas(clientBitfield, i))

(***************************************************************************)
(* C11: on an outbound or inbound connection no message is delivered to    *)
(* the message callback before the handshake callback has fired, messages  *)
(* are delivered in the order their frames arrived, and a keep-alive       *)
(* frame produces no callback.                                             *)
(***************************************************************************)
C11_HandshakeFirstInOrder ==
  /\ conn.messages > 0 => conn.handshakes > 0
  /\ conn.delivered <= conn.frames
  /\ ~conn.outOfOrder
  /\ ~conn.keepAliveCallback

\* a keep-alive frame was read after a message was delivered, and the
\* loop reads on
C11_Witness ==
  /\ conn.inbound
  /\ conn.frameLength = 0
  /\ conn.delivered > 0
  /\ conn.frames > conn.delivered
  /\ conn.read = "pending"

\* every bit position of the local bitfield
RepoBits == 0 .. (8 * BitfieldSize - 1)

(***************************************************************************)
(* C12: once havePiece(i) is true it stays true; savePiece(i, data) makes  *)
(* havePiece(i) true for a piece i and changes no other bit; no operation  *)
(* other than savePiece sets a bit and none clears one.                    *)
(***************************************************************************)
C12_PiecesPermanent ==
  [][ /\ \/ repo'.myBitfield = repo.myBitfield
         \/ \A i \in RepoBits :
               BitfieldHas(repo.myBitfield, i) => BitfieldHas(repo'.myBitfield, i)
      /\ (repo'.saves # repo.saves /\ ~repo'.last.error) =>
           /\ repo'.last.index \in Pieces => havePiece(repo'.myBitfield, repo'.last.index)
           /\ \A j \in RepoBits \ {repo'.last.index} :
                 BitfieldHas(repo'.myBitfield, j) <=> BitfieldHas(repo.myBitfield, j)
      /\ repo'.saves = repo.saves =>
           \/ repo'.myBitfield = repo.myBitfield
           \/ \A i \in RepoBits :
                 BitfieldHas(repo'.myBitfield, i) <=> BitfieldHas(repo.myBitfield, i)
    ]_vars

\* two pieces were saved one after the other and both are held
C12_Witness ==
  /\ repo.last.op = "savePiece"
  /\ ~repo.last.error
  /\ repo.saves = 2
  /\ \A i \in {0, 1} : havePiece(repo.myBitfield, i)

(***************************************************************************)
(* C13: in every reachable state the local bitfield has ceil(N/8) bytes,   *)
(* piece i is bit (7 - i mod 8) of byte floor(i/8), and every bit at a     *)
(* position >= N is zero, after any sequence of savePiece calls with any   *)
(* index argument.                                                         *)
(***************************************************************************)
C13_BitfieldLayout ==
  repo.initialized =>
    /\ Len(repo.myBitfield) = (NumPieces + 7) \div 8
    /\ (repo.last.op = "savePiece" /\ ~repo.last.error /\ repo.last.index \in Pieces) =>
          (repo.myBitfield[(repo.last.index \div 8) + 1]
             \div Pow2(7 - (repo.last.index % 8))) % 2 = 1
    /\ \A i \in RepoBits \ Pieces : ~BitfieldHas(repo.myBitfield, i)

\* the global offset of the first byte of a chunk
ChunkStart(files, c) == files[c.file].globalOffset + c.localOffset

(***************************************************************************)
(* C14: for the files table and every global byte range [g, g+L), the     *)
(* range walk visits, in file order, chunks (file, local_offset, chunk)    *)
(* with local_offset = current - file.global_offset and chunk =            *)
(* min(remaining, file.length - local_offset), each inside its file,       *)
(* whose concatenation is exactly [g, g+L); if a byte of the range is not  *)
(* covered by the files table the operation fails with an error.  The     *)
(* walk is examined for every range on each files table as initialize     *)
(* leaves it, and for the range of every later call.                      *)
(***************************************************************************)
C14_RangeWalk ==
  LET files == storage.files
      WalkOf(g, L) ==
        LET walk == processFileRange(files, g, L)
            chunks == walk.chunks
            uncovered == \E b \in g .. (g + L - 1) : b >= totalLength
        IN  /\ walk.error <=> uncovered
            /\ \A n \in DOMAIN chunks :
                  /\ chunks[n].chunk > 0
                  /\ chunks[n].localOffset + chunks[n].chunk <= files[chunks[n].file].length
                  /\ n > 1 => chunks[n - 1].file < chunks[n].file
                  /\ ChunkStart(files, chunks[n]) =
                       (IF n = 1 THEN g
                        ELSE ChunkStart(files, chunks[n - 1]) + chunks[n - 1].chunk)
                  /\ LET remaining == g + L - ChunkStart(files, chunks[n])
                         room == files[chunks[n].file].length - chunks[n].localOffset
                     IN  chunks[n].chunk = IF remaining < room THEN remaining ELSE room
            /\ ~walk.error =>
                  (IF L = 0 THEN chunks = <<>>
                   ELSE ChunkStart(files, chunks[Len(chunks)]) + chunks[Len(chunks)].chunk
                          = g + L)
  IN  repo.initialized =>
        IF repo.last.op = "none"
        THEN \A g \in 0 .. (totalLength + 1), L \in 0 .. (totalLength + 1) : WalkOf(g, L)
        ELSE WalkOf(repo.last.index * pieceLength + repo.last.begin, repo.last.length)

\* a block was read over the boundary of two files with an empty file
\* between them
C14_Witness ==
  /\ Len(storage.files) = 3
  /\ repo.last.op = "readBlock"
  /\ repo.last.storageReads = 1
  /\ ~repo.last.error
  /\ Len(processFileRange(storage.files,
                          repo.last.index * pieceLength + repo.last.begin,
                          repo.last.length).chunks) = 2

\* the bytes of the torrent in order: the files one after the other
RECURSIVE Flatten(_)
Flatten(disk) == IF disk = <<>> THEN <<>> ELSE Head(disk) \o Flatten(Tail(disk))

(***************************************************************************)
(* C15: after writePiece(i, D) every readBlock(i, begin, length) with      *)
(* begin + length <= |D| returns D[begin .. begin+length), also when the   *)
(* piece spans a file boundary; bytes outside the written span keep their  *)
(* previous value, zero if never written.                                  *)
(***************************************************************************)
C15_WriteThenRead ==
  [][ /\ (repo'.saves # repo.saves /\ ~repo'.last.error) =>
           LET D == repo'.last.data
               g == repo'.last.index * pieceLength
           IN  /\ \A begin \in 0 .. Len(D) : \A length \in 0 .. (Len(D) - begin) :
                     LET b == readBlock(storage', repo'.last.index, begin, length)
                     IN  /\ ~b.error
                         /\ b.data = SubSeq(D, begin + 1, begin + length)
               /\ Len(Flatten(storage'.disk)) = Len(Flatten(storage.disk))
               /\ \A k \in DOMAIN Flatten(storage.disk) :
                     (k <= g \/ k > g + Len(D)) =>
                        Flatten(storage'.disk)[k] = Flatten(storage.disk)[k]
      /\ (repo'.initialized /\ ~repo.initialized) =>
           \A k \in DOMAIN Flatten(storage'.disk) : Flatten(storage'.disk)[k] = 0
      /\ repo'.saves = repo.saves /\ repo.initialized => storage' = storage
    ]_vars

\* a piece written over the boundary of two files, next to bytes of an
\* earlier write that are still there
C15_Witness ==
  /\ Len(storage.files) = 3
  /\ repo.saves = 2
  /\ repo.last.op = "savePiece"
  /\ ~repo.last.error
  /\ repo.last.index = 0
  /\ repo.last.length = pieceLength
  /\ \E k \in DOMAIN Flatten(storage.disk) :
        Flatten(storage.disk)[k] \in {SaveData(1, 1)[1]}

(***************************************************************************)
(* C16: readBlock(i, begin, length) called while havePiece(i) is false     *)
(* raises an error, performs no storage read and leaves the bitfield and   *)
(* storage unchanged; called while havePiece(i) is true it returns         *)
(* exactly length bytes read from storage.                                 *)
(***************************************************************************)
C16_ReadBlockGate ==
  [][ repo'.last.op = "readBlock" =>
        /\ repo'.myBitfield = repo.myBitfield
        /\ storage' = storage
        /\ IF ~BitfieldHas(repo.myBitfield, repo'.last.index)
           THEN repo'.last.error /\ repo'.last.storageReads = 0
           ELSE /\ ~repo'.last.error
                /\ Len(repo'.last.data) = repo'.last.length
    ]_vars

(***************************************************************************)
(* C16, amended: as above while havePiece(i) is false; while havePiece(i)  *)
(* is true the call performs one storage read, and returns exactly the     *)
(* length bytes of the torrent from i * piece_length + begin on when that  *)
(* range lies inside the torrent, and raises the storage's error when it   *)
(* does not.                                                               *)
(***************************************************************************)
C16_ReadBlockGateInRange ==
  [][ repo'.last.op = "readBlock" =>
        /\ repo'.myBitfield = repo.myBitfield
        /\ storage' = storage
        /\ IF ~BitfieldHas(repo.myBitfield, repo'.last.index)
           THEN repo'.last.error /\ repo'.last.storageReads = 0
           ELSE LET g == repo'.last.index * pieceLength + repo'.last.begin
                    L == repo'.last.length
                IN  /\ repo'.last.storageReads = 1
                    /\ IF L = 0 \/ g + L <= totalLength
                       THEN /\ ~repo'.last.error
                            /\ Len(repo'.last.data) = L
                            /\ repo'.last.data = SubSeq(Flatten(storage.disk), g + 1, g + L)
                       ELSE repo'.last.error
    ]_vars

\* a block of a piece that is held was asked for with a length that runs
\* past the end of the torrent
C16_Witness ==
  /\ repo.last.op = "readBlock"
  /\ havePiece(repo.myBitfield, repo.last.index)
  /\ repo.last.storageReads = 1
  /\ repo.last.error
  /\ repo.last.index * pieceLength + repo.last.begin + repo.last.length > totalLength

\* the blocks of the assigned piece that are not requested yet
UnrequestedBlocks(p) ==
  LET left == Len(peers[p].currentPieceBuffer) - peers[p].nextBlockOffset
  IN  IF left <= 0 THEN 0 ELSE (left + BLOCK_SIZE - 1) \div BLOCK_SIZE

(***************************************************************************)
(* C17: in every reachable peer state the pipeline holds at most K = 5     *)
(* pending block requests; when the peer is interested, unchoked and its   *)
(* assigned piece has at least five unrequested blocks, the pipeline is    *)
(* filled to exactly 5 after each handled message.                         *)
(***************************************************************************)
C17_PipelineFilled ==
  \A p \in Peers :
     /\ Len(peers[p].inFlightRequests) <= 5
     /\ ( /\ ~crashed
          /\ peers[p].connected
          /\ peers[p].amInterested
          /\ ~peers[p].peerChoking
          /\ Assigned(p) # NoPiece
          /\ UnrequestedBlocks(p) >= 5 )
        => Len(peers[p].inFlightRequests) = 5

\* the REQUESTs a step sends: the pipeline entries it appends
NewRequests(p) ==
  { k \in DOMAIN peers'[p].inFlightRequests :
      \A j \in DOMAIN peers[p].inFlightRequests :
         peers[p].inFlightRequests[j] # peers'[p].inFlightRequests[k] }

(***************************************************************************)
(* C18: a REQUEST is sent, and a piece is taken to work on, only when      *)
(* am_interested is true and peer_choking is false after the message is    *)
(* applied; in every other case handling a message sends no REQUEST and    *)
(* assigns no piece.                                                       *)
(***************************************************************************)
C18_RequestsOnlyWhenUnchoked ==
  [][ \A p \in Peers :
        ( \/ NewRequests(p) # {}
          \/ Len(peers'[p].inFlightRequests) > Len(peers[p].inFlightRequests)
          \/ (Assigned(p) = NoPiece /\ Assigned(p)' # NoPiece) )
        => (peers'[p].amInterested /\ ~peers'[p].peerChoking) ]_vars

\* one peer has requests pending while interested and unchoked, and another
\* is interested but choked and has requested nothing
C18_Witness ==
  \E p \in Peers :
     /\ peers[p].amInterested
     /\ ~peers[p].peerChoking
     /\ peers[p].inFlightRequests # <<>>
     /\ Assigned(p) # NoPiece
     /\ \E q \in Peers : q # p /\ peers[q].amInterested /\ peers[q].peerChoking
                                 /\ peers[q].inFlightRequests = <<>>

\* hash failures after which a peer is dropped
MAX_BAD_HASHES == 3

(***************************************************************************)
(* C19: the handler of a completed piece whose hash fails closes the peer's *)
(* connection exactly when the peer's count of failed hashes reaches       *)
(* MAX_BAD_HASHES; after the first and the second failure the connection   *)
(* stays open and, interested and unchoked, the peer requests work again.  *)
(***************************************************************************)
C19_ClosedAtThirdBadHash ==
  [][ \A p \in Peers :
        hist'.failures[p] > hist.failures[p] =>
          IF hist'.failures[p] >= MAX_BAD_HASHES
          THEN ~peers'[p].connected
          ELSE /\ peers'[p].connected
               /\ (peers'[p].amInterested /\ ~peers'[p].peerChoking)
                    => peers'[p].inFlightRequests # <<>> ]_vars

\* the indices at which a peer stands in the session's list
ActiveAt(p) == { k \in DOMAIN activePeers : activePeers[k] = p }

(***************************************************************************)
(* C20: when a peer's connection reports an error, availability goes down  *)
(* by one for every bit of the peer's last-known bitfield and stays as it  *)
(* is for the other pieces, the piece the peer was working on leaves the   *)
(* in-flight set, the peer leaves the session's list of active peers, and  *)
(* every other peer is left as it was.                                     *)
(***************************************************************************)
C20_DisconnectReleases ==
  [][ \A p \in Peers :
        (peers[p].connected /\ ~peers'[p].connected) =>
          /\ \A i \in Pieces :
                pieceAvailability'[i] =
                  IF hasPiece(peers[p].bitfield, i)
                  THEN pieceAvailability[i] - 1 ELSE pieceAvailability[i]
          /\ Assigned(p) # NoPiece => Assigned(p) \notin inFlightPieces'
          /\ ActiveAt(p)' = {}
          /\ \A q \in Peers \ {p} : peers'[q] = peers[q] ]_vars

\* the peers of the vector that are unchoked
Unchoked == { i \in DOMAIN choker.peers : ~choker.peers[i].amChoking }

(***************************************************************************)
(* C21: after every rechoke(peers) call the four peers with the highest    *)
(* observed upload-to-us rate have am_choking = false, exactly one of the  *)
(* remaining peers (if any) has am_choking = false and every other peer    *)
(* has am_choking = true: min(|peers|, 5) peers are unchoked.              *)
(***************************************************************************)
C21_RechokeSlots ==
  choker.last = "rechoke" =>
    LET qs == choker.peers
        n == Len(qs)
    IN  /\ Cardinality(Unchoked) = (IF n < 5 THEN n ELSE 5)
        /\ \E top \in SUBSET Unchoked :
              /\ Cardinality(top) = (IF n < 4 THEN n ELSE 4)
              /\ \A i \in top, j \in DOMAIN qs \ top : qs[i].received >= qs[j].received

\* on a torrent of one-block pieces the peer that has every piece has
\* unchoked the client, and no PIECE and no CHOKE was handled yet
UnchokedBeforeAnyPiece ==
  /\ torrent = BlockTorrent
  /\ ~crashed
  /\ peers[Seed].connected
  /\ peers[Seed].bitfield = makeBitfield(Pieces)
  /\ ~peers[Seed].peerChoking
  /\ clientBitfield = makeBitfield({})
  /\ hist.chokes = 0
  /\ hist.corrupt = 0

(***************************************************************************)
(* C22: with piece_length = BLOCK_SIZE, a single peer holding every piece  *)
(* and no piece held locally, after UNCHOKE the client has sent the        *)
(* REQUESTs (0, 0, BLOCK_SIZE), (1, 0, BLOCK_SIZE), ... one per piece in   *)
(* index order, without waiting for a PIECE reply, and no further REQUEST. *)
(***************************************************************************)
C22_RequestsAcrossPieces ==
  UnchokedBeforeAnyPiece =>
    peers[Seed].inFlightRequests =
      [k \in 1 .. NumPieces |-> [pieceIndex |-> k - 1, begin |-> 0, length |-> BLOCK_SIZE]]

(***************************************************************************)
(* C22 as the code has it: after UNCHOKE the client has sent the single    *)
(* REQUEST (0, 0, BLOCK_SIZE); piece 0 is the assigned piece and, with     *)
(* every block of it requested, no REQUEST for another piece is sent       *)
(* before a PIECE reply is handled.                                        *)
(***************************************************************************)
C22_OneRequestPerAssignedPiece ==
  UnchokedBeforeAnyPiece =>
    /\ peers[Seed].inFlightRequests =
         <<[pieceIndex |-> 0, begin |-> 0, length |-> BLOCK_SIZE]>>
    /\ Assigned(Seed) = 0
    /\ peers[Seed].nextBlockOffset = BLOCK_SIZE

C22_Witness ==
  /\ UnchokedBeforeAnyPiece
  /\ Len(peers[Seed].inFlightRequests) = 1

\* what assignWorkForPeer must return for peer p when assignedPieces were
\* `before`: among the pieces p has, the client lacks and nobody holds, the
\* one of lowest availability, of lowest index among equals; none otherwise
RarestFor(p, before) ==
  LET open == { i \in Pieces : /\ BitfieldHas(session.peerHas[p], i)
                               /\ ~BitfieldHas(session.myBitfield, i)
                               /\ i \notin before }
      best == { i \in open : \A j \in open :
                  \/ session.pieceAvailability[i] < session.pieceAvailability[j]
                  \/ /\ session.pieceAvailability[i] = session.pieceAvailability[j]
                     /\ i <= j }
  IN  IF open = {} THEN {NoPiece} ELSE best

\* Peer1 has every piece, Peer2 every piece but the last, each announced
\* once, nothing held locally, and assignWorkForPeer was called for Peer1,
\* Peer2, Peer1 in a row starting with nothing assigned
RarityScenario ==
  /\ \A i \in Pieces : BitfieldHas(session.peerHas["p1"], i)
  /\ \A i \in Pieces : BitfieldHas(session.peerHas["p2"], i) <=> i < NumPieces - 1
  /\ session.pieceAvailability =
       [i \in Pieces |-> IF i < NumPieces - 1 THEN 2 ELSE 1]
  /\ session.myBitfield = makeBitfield({})
  /\ Len(session.returned) = 3
  /\ session.returned[1].before = {}
  /\ [k \in 1 .. 3 |-> session.returned[k].peer] = <<"p1", "p2", "p1">>

C24_ChokeUnchokeRerequests ==
  [][ (hist.chokes > 0 /\ peers[Seed].peerChoking /\ ~peers'[Seed].peerChoking) =>
        LET requests == peers'[Seed].inFlightRequests
            buffer == peers'[Seed].currentPieceBuffer
            \* an honest peer's bytes are not zero, those of a fresh buffer are
            Received(r) == \E k \in (r.begin + 1) .. (r.begin + r.length) :
                              k <= Len(buffer) /\ buffer[k] # 0
        IN  /\ \A k \in DOMAIN hist.dropped :
                 \E j \in DOMAIN requests : requests[j] = hist.dropped[k]
            /\ \A j \in DOMAIN requests : ~Received(requests[j]) ]_vars

(***************************************************************************)
(* C25: a CHOKE handled with c requests pending leaves peer_choking true,  *)
(* the pipeline empty and next_block_offset = max(0, prev - c *            *)
(* BLOCK_SIZE); the assigned piece, the picker's in-flight lock on it and  *)
(* the bytes already copied to the piece buffer are unchanged.             *)
(***************************************************************************)
C25_ChokeRewinds ==
  [][ hist'.chokes > hist.chokes =>
        LET c == Len(peers[Seed].inFlightRequests)
            prev == peers[Seed].nextBlockOffset
        IN  /\ ~crashed'
            /\ peers'[Seed].peerChoking
            /\ peers'[Seed].inFlightRequests = <<>>
            /\ peers'[Seed].nextBlockOffset =
                 (IF prev - c * BLOCK_SIZE > 0 THEN prev - c * BLOCK_SIZE ELSE 0)
            /\ peers'[Seed].nextPieceIndex = peers[Seed].nextPieceIndex
            /\ peers'[Seed].currentPieceBuffer = peers[Seed].currentPieceBuffer
            /\ inFlightPieces' = inFlightPieces ]_vars

(***************************************************************************)
(* C26: when the piece buffer is complete and the hash check fails, with   *)
(* fewer than two earlier failures of this peer, the piece is handed back  *)
(* for another try exactly once (onPieceFailed(index)), the piece is not   *)
(* saved, the local bit for it stays clear, the count of failed hashes     *)
(* goes up by one, next_block_offset is 0, the buffer is cleared and the   *)
(* connection stays open.                                                  *)
(***************************************************************************)
C26_HashFailureHandsBack ==
  [][ \A p \in Peers :
        (hist'.failures[p] > hist.failures[p] /\ hist.failures[p] < 2) =>
          LET index == peers[p].nextPieceIndex
          IN  /\ hist'.handedBack = Append(hist.handedBack, index)
              /\ hist'.saved = hist.saved
              /\ ~clientHasPiece(clientBitfield', index)
              /\ hist'.failures[p] = hist.failures[p] + 1
              /\ peers'[p].nextBlockOffset = 0
              /\ peers'[p].currentPieceBuffer = <<>>
              /\ peers'[p].connected ]_vars

(***************************************************************************)
(* C27: a peer works on at most one piece at a time: every pending REQUEST *)
(* is for the assigned piece.  Once every block of the assigned piece has  *)
(* been requested, handling a message (other than a CHOKE, which rewinds)  *)
(* sends no further REQUEST and takes no other piece until the piece is    *)
(* completed, by a hash that passes or fails.                              *)
(***************************************************************************)
C27_OnePieceAtATime ==
  [][ \A p \in Peers :
        LET s == peers[p]
            t == peers'[p]
            allRequested == /\ Assigned(p) # NoPiece
                            /\ s.nextBlockOffset >= Len(s.currentPieceBuffer)
            \* the buffer is cleared when the hash was checked
            completed == Assigned(p)' = NoPiece
        IN  /\ \A k \in DOMAIN t.inFlightRequests :
                  /\ Assigned(p)' # NoPiece
                  /\ t.inFlightRequests[k].pieceIndex = Assigned(p)'
            /\ (allRequested /\ ~completed /\ hist'.chokes = hist.chokes) =>
                  /\ NewRequests(p) = {}
                  /\ Len(t.inFlightRequests) <= Len(s.inFlightRequests)
                  /\ Assigned(p)' = Assigned(p) ]_vars

\* every block of the assigned piece is requested and some are pending, on
\* a client that already completed a piece
C27_Witness ==
  \E p \in Peers :
     /\ Assigned(p) # NoPiece
     /\ peers[p].nextBlockOffset >= Len(peers[p].currentPieceBuffer)
     /\ peers[p].inFlightRequests # <<>>
     /\ \E i \in Pieces : clientHasPiece(clientBitfield, i) /\ i # Assigned(p)

(***************************************************************************)
(* C28: for an assigned piece of true length L the REQUESTs sent with no   *)
(* CHOKE in between are (index, k * BLOCK_SIZE, min(BLOCK_SIZE, L - k *    *)
(* BLOCK_SIZE)) for k = 0, 1, ... in increasing order: they cover [0, L)   *)
(* once and none reaches past L.                                           *)
(***************************************************************************)
C28_BlocksCoverPiece ==
  \A p \in Peers :
     hist.chokes = 0 =>
       LET requests == peers[p].inFlightRequests
           L == thisPieceLength(Assigned(p))
       IN  /\ \A k \in DOMAIN requests :
                LET r == requests[k]
                IN  /\ r.pieceIndex = Assigned(p)
                    /\ r.begin % BLOCK_SIZE = 0
                    /\ r.begin < L
                    /\ r.length = (IF L - r.begin < BLOCK_SIZE THEN L - r.begin
                                   ELSE BLOCK_SIZE)
                    /\ k > 1 => requests[k - 1].begin < r.begin
           /\ requests # <<>> => peers[p].nextBlockOffset <= L

(***************************************************************************)
(* C29: a PIECE that matches no pending request by (index, begin, length)  *)
(* is discarded: the pipeline, the piece buffer, next_block_offset and the *)
(* assignment are unchanged, no piece is completed or hash-checked, and    *)
(* no REQUEST is sent.                                                     *)
(***************************************************************************)
C29_UnmatchedPieceDiscarded ==
  [][ hist'.unmatched # hist.unmatched =>
        /\ peers' = peers
        /\ clientBitfield' = clientBitfield
        /\ hist'.saved = hist.saved
        /\ hist'.failures = hist.failures ]_vars

\* an unmatched PIECE was handled while blocks of the assigned piece were
\* pending
C29_Witness ==
  /\ hist.unmatched = 1
  /\ Assigned(Seed) # NoPiece
  /\ peers[Seed].inFlightRequests # <<>>
  /\ \E k \in DOMAIN peers[Seed].currentPieceBuffer :
        peers[Seed].currentPieceBuffer[k] # 0

C31_HandshakeValidated ==
  LET matches == conn.remote.pstr = pstr /\ conn.remote.infoHash = infoHash
  IN  /\ conn.handshakes > 0 => matches
      /\ (conn.remote # NoHandshake /\ ~matches) =>
            /\ ~conn.socketOpen
            /\ conn.terminal > 0
            /\ conn.handshakes = 0
            /\ conn.read = "none" /\ conn.frames = 0 /\ conn.messages = 0
      /\ (conn.inbound /\ ~matches) => conn.hsWrite = "none" /\ conn.wire = <<>>

\* an inbound connection was closed for a handshake of another torrent, and
\* the close was reported
C31_Witness ==
  /\ conn.inbound
  /\ conn.remote.pstr = pstr
  /\ conn.remote.infoHash # infoHash
  /\ ~conn.socketOpen
  /\ conn.lastError = "timed_out"

(***************************************************************************)
(* C32: a frame whose length prefix exceeds BLOCK_SIZE + 13 is a fatal     *)
(* protocol error: the connection is closed, the terminal callback carries *)
(* a protocol-error kind, no message is delivered for the frame and no     *)
(* further frame is read; a frame of length 1 .. BLOCK_SIZE + 13 is never  *)
(* rejected for its size.                                                  *)
(***************************************************************************)
C32_OversizeIsProtocolError ==
  [][/\ conn'.frames = conn.frames + 1 =>
          IF conn'.frameLength > BLOCK_SIZE + 13
          THEN /\ ~conn'.socketOpen
               /\ conn'.terminal > 0
               /\ conn'.lastError = "protocol_error"
               /\ conn'.read = "none"
               /\ conn'.delivered = conn.delivered
          ELSE conn'.frameLength >= 1 =>
                 /\ conn'.socketOpen = conn.socketOpen
                 /\ conn'.terminal = conn.terminal
                 /\ conn'.read # "none" /\ conn'.readPhase = "body"
     /\ (conn.frames > 0 /\ conn.frameLength > BLOCK_SIZE + 13) =>
          /\ conn'.frames = conn.frames
          /\ conn'.delivered = conn.delivered
          /\ conn'.read = "none"]_vars

(***************************************************************************)
(* C33: close is idempotent and cancels all timers of the connection: a    *)
(* second close() adds no callback and changes nothing, and once close()   *)
(* has run none of the connect-timeout, keep-alive and rate timers is      *)
(* pending.                                                                *)
(***************************************************************************)
C33_CloseIdempotentCancelsTimers ==
  conn.terminal > 0 =>
    /\ conn.terminal = 1
    /\ ~conn.socketOpen
    /\ conn.timer # "pending"
    /\ conn.kaTimer # "pending"
    /\ conn.speedTimer # "pending"

(***************************************************************************)
(* C34: on an outbound connection the connect timer closes the connection  *)
(* and reports a connection error if and only if connect has not           *)
(* completed when the timer expires; once handleConnect has seen the       *)
(* connect succeed, the timeout handler never closes the connection, also  *)
(* when it was already queued as the timer was cancelled.                  *)
(***************************************************************************)
C34_TimeoutOnlyBeforeConnect ==
  [][(conn.timer \in Ready /\ conn'.timer = "none") =>
        IF conn.connected \/ conn.timer = "aborted"
        THEN conn' = [conn EXCEPT !.timer = "none"]
        ELSE /\ ~conn'.socketOpen
             /\ conn'.terminal > 0
             /\ conn'.lastError = "timed_out"]_vars

(***************************************************************************)
(* C35: on every established connection, outbound or inbound, a rate tick  *)
(* is due every second: the rate timer is running from the handshake on,   *)
(* and each tick publishes the bytes received and written during the       *)
(* interval as download_rate and upload_rate and zeroes the counters.      *)
(***************************************************************************)
C35_RateTimerRuns ==
  (conn.handshakes > 0 /\ conn.socketOpen) =>
    /\ conn.speedTimer # "none"
    /\ conn.delivered > 0 => conn.bytesDownloadedInterval + conn.downloadRate > 0

(***************************************************************************)
(* C36: after any sequence of getFileStream calls the pool holds at most   *)
(* MAX_OPEN_FILES distinct paths, most recently used first; a hit moves    *)
(* its entry to the front and opens no file; a miss at capacity closes     *)
(* exactly the least recently used entry before the new one is inserted    *)
(* at the front; the keys of the path map are exactly the paths of the     *)
(* pool, each pointing at the entry with that path, also when opening the  *)
(* new file fails after an eviction.                                       *)
(***************************************************************************)
C36_PoolIsLRU ==
  LET filePool == pool.filePool
      before == pool.last.before
      path == pool.last.path
      paths(list) == { list[k].path : k \in DOMAIN list }
      without(list, f) ==
        IF \E k \in DOMAIN list : list[k].path = f
        THEN eraseAt(list, CHOOSE k \in DOMAIN list : list[k].path = f)
        ELSE list
      kept == IF Len(before) >= MAX_OPEN_FILES
              THEN SubSeq(before, 1, Len(before) - 1) ELSE before
  IN  /\ Len(filePool) <= MAX_OPEN_FILES
      /\ \A j, k \in DOMAIN filePool :
            j # k => filePool[j].path # filePool[k].path /\ filePool[j].node # filePool[k].node
      /\ \A f \in FilePaths :
            IF f \in paths(filePool)
            THEN \E k \in DOMAIN filePool :
                    filePool[k].path = f /\ filePool[k].node = pool.openFilesMap[f]
            ELSE pool.openFilesMap[f] = NoNode
      /\ pool.last.op = "hit" =>
            /\ path \in paths(before)
            /\ ~pool.last.opened
            /\ filePool[1].path = path /\ filePool[1].node = pool.last.stream
            /\ Tail(filePool) = without(before, path)
      /\ pool.last.op = "miss" =>
            /\ path \notin paths(before)
            /\ filePool[1].path = path /\ filePool[1].node = pool.last.stream
            /\ Tail(filePool) = kept
      /\ pool.last.op = "error" =>
            /\ path \notin paths(before)
            /\ filePool = kept

\* the pool was full, its last entry was closed for a file that could not
\* be opened, and the map lost only that key
C36_Witness ==
  /\ pool.last.op = "error"
  /\ Len(pool.last.before) = MAX_OPEN_FILES
  /\ Len(pool.filePool) = MAX_OPEN_FILES - 1
  /\ pool.openFilesMap[pool.last.before[MAX_OPEN_FILES].path] = NoNode

(***************************************************************************)
(* C37: with savePiece, readBlock, havePiece and getBitfield called from   *)
(* different threads, all mutable state of the repository is accessed      *)
(* under its mutex: no two threads are inside the storage range walk or    *)
(* the file pool at the same time, and no reader observes bit i before     *)
(* all bytes of piece i have been written.                                 *)
(***************************************************************************)
C37_RepositoryUnderMutex ==
  /\ Cardinality(InStorage(callers)) <= 1
  /\ ~callers.early

(***************************************************************************)
(* C38: handleInboundConnection(socket) adds exactly one new Peer to the   *)
(* active list and starts the inbound handshake on it: the remote          *)
(* handshake is read first and ours is sent only in reply; the accepted    *)
(* socket is never driven through the outbound sequence (connect, then     *)
(* write our handshake first).                                             *)
(***************************************************************************)
C38_InboundStartsInbound ==
  [][activePeers' # activePeers =>
       /\ Len(activePeers') = Len(activePeers) + 1
       /\ SubSeq(activePeers', 1, Len(activePeers)) = activePeers
       /\ conn'.started /\ conn'.inbound
       /\ conn'.hsRead = "pending"
       /\ conn'.connect = "none" /\ conn'.timer = "none" /\ conn'.hsWrite = "none"]_vars

(***************************************************************************)
(* C39: rechoke changes am_choking, and thereby sends CHOKE or UNCHOKE,    *)
(* only for peers whose flag differs from the value the round assigns: a   *)
(* peer already at its target is sent nothing, and a peer whose flag       *)
(* changes is sent exactly one message, the one of its new flag.           *)
(***************************************************************************)
C39_RechokeNotifiesChangesOnly ==
  choker.last = "rechoke" =>
    \A i \in DOMAIN choker.peers :
       LET q == choker.peers[i]
       IN  q.sent = IF q.amChoking = q.was THEN <<>>
                    ELSE IF q.amChoking THEN <<"CHOKE">> ELSE <<"UNCHOKE">>

\* a round choked a peer, unchoked another, and left an unchoked peer as it
\* was
C39_Witness ==
  /\ choker.last = "rechoke"
  /\ \E i \in DOMAIN choker.peers : choker.peers[i].sent = <<"CHOKE">>
  /\ \E i \in DOMAIN choker.peers : choker.peers[i].sent = <<"UNCHOKE">>
  /\ \E i \in DOMAIN choker.peers : ~choker.peers[i].amChoking /\ ~choker.peers[i].was

(***************************************************************************)
(* C40, as stated: once savePiece(i) has set bit i of the client's         *)
(* bitfield, no peer is handed piece i again, whenever it took its copy    *)
(* of the bitfield.                                                        *)
(***************************************************************************)
C40_SavedNeverPickedAgain ==
  \A t \in Threads :
     work[t].step = "downloading" => ~havePiece(callers.myBitfield, work[t].piece)

(***************************************************************************)
(* C40, amended: a peer that is handed a piece the repository already      *)
(* holds took its copy of the bitfield before that piece was saved: with   *)
(* a copy taken after the save, pickPiece does not return the piece.       *)
(***************************************************************************)
C40_SavedPickedAgainOnlyWithOldCopy ==
  \A t \in Threads :
     work[t].step = "downloading" => ~hasPiece(work[t].myBitfield, work[t].piece)

\* a peer downloads a piece that was saved after it took its copy, while
\* the other peer, whose copy shows a saved piece, downloads another one
C40_Witness ==
  \E t \in Threads, u \in Threads :
     /\ work[t].step = "downloading"
     /\ havePiece(callers.myBitfield, work[t].piece)
     /\ work[u].step = "downloading"
     /\ work[u].myBitfield # makeBitfield({})

====
